---- MODULE Spec2Model ----
(***************************************************************************)
(* Verification model of the diagnostic_render layout engine:              *)
(*   render_diagnostic_file / render_lines_with_annotations                *)
(*     (src/src/render/mod.rs)                                             *)
(*   calculate / calculate_vertical_offsets / calculate_final_data /       *)
(*   calculate_single_line_data (src/src/render/calculate/mod.rs)          *)
(*                                                                         *)
(* Lines, columns and vertical_bar_index values are 0-based as in the      *)
(* source; TLA+ sequences are 1-based, so indices INTO vectors             *)
(* (starts_ends, vertical_offsets, ...) are the source's plus one.         *)
(***************************************************************************)
EXTENDS Integers, Sequences, FiniteSets, TLC

\* ------------------------------------------------------------------ bounds
\* Two files are laid out, each of three lines (line terminators included in
\* the lengths): annotations that end on the middle line start on the first,
\* annotations that start on the middle line end on the last.
\* The narrow file, with up to MaxAnnotations annotations:
MaxAnnotations == 3
HeadLen == 2
BodyLen == 3
TailLen == 1
\* the wide file, whose middle line has WideBodyLen bytes, with up to
\* MaxWideAnnotations annotations:
MaxWideAnnotations == 2
WideBodyLen == 5
\* rows after which the model gives up on the row loop of calculate_final_data
MaxRows == 16
\* rows looked at after the row the row loop stops at
RowsBeyond == 4
\* the tall file of the rendered diagnostics: TallLines lines of TallLineLen
\* bytes, with up to MaxTallAnnotations annotations over whole lines
TallLines == 7
TallLineLen == 2
MaxTallAnnotations == 2
\* rendered diagnostics: up to MaxRendered annotations in the narrow file,
\* MaxDiagnostics diagnostics in a call, surrounding_lines up to
\* MaxSurrounding, suppressed_count up to MaxSuppressed
MaxRendered == 2
MaxDiagnostics == 2
MaxSurrounding == 2
MaxSuppressed == 1
\* the sink fails at one of the first MaxFailAt lines written, or never
MaxFailAt == 12

\* u32::MAX, the value end_offset_for_start is reset to.  TLC's integers end
\* at 2^31 - 1; the value is only ever compared with
\* next_start_vertical_offset, which stays below the number of annotations.
U32_MAX == 2147483647

\* the file: the length of each of its lines
VARIABLE line_lens

RECURSIVE SeqSum(_)
SeqSum(s) == IF s = <<>> THEN 0 ELSE s[1] + SeqSum(Tail(s))

\* ------------------------------------------------- FileDatabase (crate::file)
\* source.len() of a file with these lines
source_len(lens) == SeqSum(lens)

\* Files::line_range(..).start: the byte offset a line starts at
line_range_start(line_) == SeqSum(SubSeq(line_lens, 1, line_))

\* Files::line_index: the 0-based line a byte offset lies on
line_index(byte) ==
  Cardinality({l \in 1..Len(line_lens) : line_range_start(l) <= byte})

\* usize::saturating_sub
saturating_sub(a, b) == IF a >= b THEN a - b ELSE 0

max(a, b) == IF a >= b THEN a ELSE b

\* ------------------------------------------------------------ input values
\* Annotation: range start..end (end exclusive, not empty, inside the file)
\* and whether the label is non-empty (label.is_empty() is all the layout
\* asks of a label).
Annotations(lens) ==
  {[start |-> s, end |-> e, label |-> l] :
     s \in 0..(source_len(lens) - 2), e \in 1..(source_len(lens) - 1),
     l \in BOOLEAN}

AnnotationRanges(lens) == {a \in Annotations(lens) : a.start < a.end}

\* the files of the model and the number of annotations laid out in each
NarrowFile == <<HeadLen, BodyLen, TailLen>>
WideFile == <<HeadLen, WideBodyLen, TailLen>>
\* the file and the two labelled annotations of test_overlapping_1:
\* "let main = 23;\n", "something += 3.0;\n", "print(example_source);\n"
ScenarioFile == <<15, 18, 23>>
ScenarioAnnotations ==
  <<[start |-> 0, end |-> 19, label |-> TRUE],
    [start |-> 4, end |-> 28, label |-> TRUE]>>
Files == {NarrowFile, WideFile, ScenarioFile}
MaxAnnotationsIn(lens) ==
  IF lens = NarrowFile THEN MaxAnnotations ELSE MaxWideAnnotations

\* Vec<Annotation> of at most MaxAnnotationsIn(lens) elements; the file of
\* the scenario comes with the annotations of the scenario
AnnotationVecs(lens) ==
  IF lens = ScenarioFile THEN {ScenarioAnnotations}
  ELSE UNION {[1..n -> AnnotationRanges(lens)] : n \in 0..MaxAnnotationsIn(lens)}

\* -------------------------------------------------------------- generic
\* the orderings sort_unstable_by may leave a vector in: every permutation
\* of the indices along which the keys do not decrease
SortedPermutations(keys) ==
  LET n == Len(keys)
  IN {p \in [1..n -> 1..n] :
        /\ \A i, j \in 1..n : i # j => p[i] # p[j]
        /\ \A i \in 1..n : i < n => keys[p[i]] <= keys[p[i + 1]]}

Permute(s, p) == [i \in 1..Len(s) |-> s[p[i]]]


\* a loop `for i in lo..=hi` / `for i in (lo..=hi).rev()` threading a state
FoldUp(Op(_, _), st0, lo, hi) ==
  LET RECURSIVE go(_, _)
      go(i, st) == IF i > hi THEN st ELSE go(i + 1, Op(i, st))
  IN go(lo, st0)

FoldDown(Op(_, _), st0, hi, lo) ==
  LET RECURSIVE go(_, _)
      go(i, st) == IF i < lo THEN st ELSE go(i - 1, Op(i, st))
  IN go(hi, st0)

\* sort_by / sort_by_key (stable): insertion behind the elements whose key is
\* not greater
StableSortBy(Key(_), s) ==
  LET insert(t, x) ==
        LET k == Cardinality({i \in 1..Len(t) : Key(t[i]) <= Key(x)})
        IN SubSeq(t, 1, k) \o <<x>> \o SubSeq(t, k + 1, Len(t))
      RECURSIVE sorted(_)
      sorted(n) == IF n = 0 THEN <<>> ELSE insert(sorted(n - 1), s[n])
  IN sorted(Len(s))

\* ===================================================== render_diagnostic_file
\* annotations.sort_by(|a, b| a.range.start.cmp(&b.range.start)), stable
sort_by_range_start(anns) == StableSortBy(LAMBDA a : a.start, anns)

\* the scan keeping a block that ends on the line the next one starts on
nested_blocks_step_keep_ended(anns, i, st) ==
  LET start_line_index == line_index(anns[i].start)
      end_line_index == line_index(anns[i].end)
      retained == SelectSeq(st.current, LAMBDA a_end : a_end >= start_line_index)
      pushed == Append(retained, end_line_index)
  IN IF start_line_index = end_line_index
     THEN st
     ELSE [current |-> pushed, max |-> max(st.max, Len(pushed))]

\* one iteration of the max_nested_blocks scan; st = [current, max]
nested_blocks_step(anns, i, st) ==
  LET start_line_index == line_index(anns[i].start)
      end_line_index == line_index(anns[i].end)
      retained == SelectSeq(st.current, LAMBDA a_end : a_end > start_line_index)
      pushed == Append(retained, end_line_index)
  IN IF start_line_index = end_line_index
     THEN st
     ELSE [current |-> pushed, max |-> max(st.max, Len(pushed))]

compute_max_nested_blocks(anns) ==
  FoldUp(LAMBDA i, st : nested_blocks_step(anns, i, st),
         [current |-> <<>>, max |-> 0], 1, Len(anns)).max

\* ============================================== render_lines_with_annotations
\* self.files.line_index(file, source.len() - 1)
last_line_index_in_file == line_index(source_len(line_lens) - 1)

\* the loop with the continuing set taken strictly between start and end
partition_step_strict(anns, line, i, st) ==
  LET start_line_index == line_index(anns[i].start)
      end_line_index == line_index(anns[i].end)
  IN IF st.stop THEN st
     ELSE IF start_line_index > line /\ end_line_index > line
       THEN [st EXCEPT !.stop = TRUE]
     ELSE IF end_line_index < line /\ start_line_index < line
       THEN st
     ELSE [st EXCEPT
             !.continuing = IF start_line_index < line /\ line < end_line_index
                            THEN Append(@, i) ELSE @,
             !.on_line = IF start_line_index = line \/ end_line_index = line
                         THEN Append(@, i) ELSE @]

\* the `for (i, annotation) in annotations.iter().enumerate()` loop of one
\* line; st = [continuing, on_line, stop], indices into annotations
partition_step(anns, line, i, st) ==
  LET start_line_index == line_index(anns[i].start)
      end_line_index == line_index(anns[i].end)
  IN IF st.stop THEN st
     ELSE IF start_line_index > line /\ end_line_index > line
       THEN [st EXCEPT !.stop = TRUE]
     ELSE IF end_line_index < line /\ start_line_index < line
       THEN st
     ELSE [st EXCEPT
             !.continuing = IF start_line_index < line THEN Append(@, i) ELSE @,
             !.on_line = IF start_line_index = line \/ end_line_index = line
                         THEN Append(@, i) ELSE @]

partition_line(anns, line) ==
  FoldUp(LAMBDA i, st : partition_step(anns, line, i, st),
         [continuing |-> <<>>, on_line |-> <<>>, stop |-> FALSE], 1, Len(anns))

\* ================================================================== calculate
\* start_end_data with the end column left exclusive (no saturating_sub(1))
start_end_data_exclusive_end(anns, a, line) ==
  LET start == line_index(anns[a].start)
      end == line_index(anns[a].end)
      start_part == start = line
      end_part == end = line
  IN [ann |-> a,
      kind |-> IF start_part /\ end_part THEN "Both"
               ELSE IF start_part THEN "Start"
               ELSE IF end_part THEN "End"
               ELSE "None",
      start_col |-> IF start_part
                    THEN anns[a].start - line_range_start(start) ELSE 0,
      end_col |-> IF end_part
                  THEN anns[a].end - line_range_start(end)
                  ELSE 0,
      label |-> anns[a].label,
      range_start |-> anns[a].start]

\* the start / end data of one annotation on line `line`
start_end_data(anns, a, line) ==
  LET start == line_index(anns[a].start)
      end == line_index(anns[a].end)
      start_part == start = line
      end_part == end = line
  IN [ann |-> a,
      kind |-> IF start_part /\ end_part THEN "Both"
               ELSE IF start_part THEN "Start"
               ELSE IF end_part THEN "End"
               ELSE "None",
      start_col |-> IF start_part
                    THEN anns[a].start - line_range_start(start) ELSE 0,
      end_col |-> IF end_part
                  THEN saturating_sub(anns[a].end - line_range_start(end), 1)
                  ELSE 0,
      label |-> anns[a].label,
      range_start |-> anns[a].start]

build_starts_ends(anns, on_line, line) ==
  [k \in 1..Len(on_line) |-> start_end_data(anns, on_line[k], line)]

\* column of Start(a) | Both(a, _) => a, End(a) => a
StartColumnOf(se) == IF se.kind = "End" THEN se.end_col ELSE se.start_col

\* column of Start(start) => start, End(end) | Both(_, end) => end
EndColumnOf(se) == IF se.kind = "Start" THEN se.start_col ELSE se.end_col

\* the orders starts_ends.sort_unstable_by(column) may produce
sorted_starts_ends(unsorted) ==
  {Permute(unsorted, p) :
     p \in SortedPermutations([i \in 1..Len(unsorted) |-> StartColumnOf(unsorted[i])])}

\* ================================================= calculate_vertical_offsets
static_offset_from_start(se) ==
  SeqSum([i \in 1..Len(se) |-> IF se[i].kind = "Start" THEN 1 ELSE 0])

\* `for ... in starts_ends.iter().enumerate().rev().skip(1)`: does another
\* one end after the single-line annotation at i starts
ends_after_start(se, i) ==
  \E j \in 1..(Len(se) - 1) : EndColumnOf(se[j]) >= se[i].start_col

\* the single-line pass with an offset spent on every Both without a label
both_pass_step_unlabelled_row(se, i, st) ==
  IF se[i].kind # "Both" THEN st
  ELSE IF ~se[i].label
    THEN [st EXCEPT !.next = @ + 1, !.processed[i] = TRUE]
  ELSE LET incremented == IF st.next = 0 /\ ends_after_start(se, i)
                          THEN 1 ELSE st.next
           next_vertical_offset ==
             IF st.next = 0
             THEN incremented + static_offset_from_start(se) ELSE st.next
       IN [st EXCEPT
             !.end_offset_for_start =
                IF st.next = 0
                THEN incremented + static_offset_from_start(se) ELSE @,
             !.offsets[i] = next_vertical_offset,
             !.next = next_vertical_offset + 1,
             !.processed[i] = TRUE]

\* one iteration of the single-line ("Both") pass
\* st = [offsets, processed, next, end_offset_for_start, next_start, ok]
both_pass_step(se, i, st) ==
  IF se[i].kind # "Both" THEN st
  ELSE IF ~se[i].label
    THEN [st EXCEPT !.next = IF i = Len(se) THEN @ + 1 ELSE @,
                    !.processed[i] = TRUE]
  ELSE LET incremented == IF st.next = 0 /\ ends_after_start(se, i)
                          THEN 1 ELSE st.next
           next_vertical_offset ==
             IF st.next = 0
             THEN incremented + static_offset_from_start(se) ELSE st.next
       IN [st EXCEPT
             !.end_offset_for_start =
                IF st.next = 0
                THEN incremented + static_offset_from_start(se) ELSE @,
             !.offsets[i] = next_vertical_offset,
             !.next = next_vertical_offset + 1,
             !.processed[i] = TRUE]

\* sorted_starts with the comparison reversed: descending by start byte
sorted_starts_descending(se) ==
  LET ends == SelectSeq([i \in 1..Len(se) |-> i], LAMBDA i : se[i].kind = "End")
  IN {Permute(ends, p) :
        p \in SortedPermutations([k \in 1..Len(ends) |-> 0 - se[ends[k]].range_start])}

\* the orders `starts.sort_unstable_by(start byte)` may produce: the indices
\* of the End data, ascending by the start byte of their annotation
sorted_starts(se) ==
  LET ends == SelectSeq([i \in 1..Len(se) |-> i], LAMBDA i : se[i].kind = "End")
  IN {Permute(ends, p) :
        p \in SortedPermutations([k \in 1..Len(ends) |-> se[ends[k]].range_start])}

\* does another one start before the ending annotation at i
starts_before_end(se, i) ==
  \E j \in 1..Len(se) : j # i /\ StartColumnOf(se[j]) <= se[i].end_col

\* end_pass_step without the `starts_before_end` test: the first ending
\* annotation is always given offset 0
end_pass_step_from_zero(se, i, st) ==
  [st EXCEPT !.offsets[i] = st.next,
             !.next = st.next + 1,
             !.processed[i] = TRUE]

\* one iteration of the multi-line ending pass
end_pass_step(se, i, st) ==
  LET next_vertical_offset ==
        IF st.next = 0 /\ starts_before_end(se, i) THEN 1 ELSE st.next
  IN [st EXCEPT !.offsets[i] = next_vertical_offset,
                !.next = next_vertical_offset + 1,
                !.processed[i] = TRUE]

\* next_start_vertical_offset and the reset of end_offset_for_start
start_pass_init(st) ==
  LET next_start_vertical_offset == IF st.next > 0 THEN 1 ELSE 0
  IN [st EXCEPT
        !.next_start = next_start_vertical_offset,
        !.end_offset_for_start =
           IF next_start_vertical_offset >= st.next THEN U32_MAX ELSE @]

\* one iteration of the multi-line starting pass; ok = FALSE is the panic of
\* assert!(next_start_vertical_offset < end_offset_for_start)
start_pass_step(se, i, st) ==
  IF se[i].kind # "Start" \/ ~st.ok THEN st
  ELSE IF ~(st.next_start < st.end_offset_for_start)
    THEN [st EXCEPT !.ok = FALSE]
  ELSE [st EXCEPT !.offsets[i] = st.next_start,
                  !.next_start = @ + 1,
                  !.processed[i] = TRUE]

\* calculate_vertical_offsets, with `starts` the sorted ending annotations
calculate_vertical_offsets(se, starts) ==
  LET n == Len(se)
      st0 == [offsets |-> [i \in 1..n |-> 0],
              processed |-> [i \in 1..n |-> FALSE],
              next |-> 0, end_offset_for_start |-> 0,
              next_start |-> 0, ok |-> TRUE]
      st1 == FoldDown(LAMBDA i, st : both_pass_step(se, i, st), st0, n, 1)
      st2 == FoldDown(LAMBDA k, st : end_pass_step(se, starts[k], st),
                      st1, Len(starts), 1)
      st3 == FoldUp(LAMBDA i, st : start_pass_step(se, i, st),
                    start_pass_init(st2), 1, n)
  IN [st3 EXCEPT !.ok = st3.ok /\ \A i \in 1..n : st3.processed[i]]


\* ============================================================ AnnotationData
\* One record shape for the seven variants.  col is location.column_index
\* (start_column_index of a ConnectingSingleline), end_col is
\* end_location.column_index / end_column_index, ann is the annotation the
\* element was made for (its index in the sorted annotations of the file).
AnnotationData(type, col, end_col, vertical_bar_index, ann) ==
  [type |-> type, col |-> col, end_col |-> end_col,
   vertical_bar_index |-> vertical_bar_index, ann |-> ann]

ContinuingMultiline(k, ann) == AnnotationData("ContinuingMultiline", 0, 0, k, ann)
ConnectingMultiline(end_col, k, ann) ==
  AnnotationData("ConnectingMultiline", 0, end_col, k, ann)
StartData(col, ann) == AnnotationData("Start", col, 0, 0, ann)
ConnectingSingleline(col, end_col, ann) ==
  AnnotationData("ConnectingSingleline", col, end_col, 0, ann)
EndData(col, ann) == AnnotationData("End", col, 0, 0, ann)
Hanging(col, ann) == AnnotationData("Hanging", col, 0, 0, ann)
Label(col, ann) == AnnotationData("Label", col, 0, 0, ann)

\* AnnotationData::start_column_index, the key of the final sort of a row
start_column_index(d) ==
  IF d.type \in {"ContinuingMultiline", "ConnectingMultiline"} THEN 0 ELSE d.col

\* the loop body with `continuing_end_index = i` instead of `i + 1`
continuing_end_index_step_exclusive(anns, continuing, line, i, st) ==
  IF st.stop THEN st
  ELSE IF line_index(anns[continuing[i]].start) < line
    THEN [st EXCEPT !.index = i - 1]
  ELSE [st EXCEPT !.stop = TRUE]

\* ======================================================= calculate_final_data
\* how many elements from the start of continuing_annotations started
\* before this line; st = [index, stop]
continuing_end_index_step(anns, continuing, line, i, st) ==
  IF st.stop THEN st
  ELSE IF line_index(anns[continuing[i]].start) < line
    THEN [st EXCEPT !.index = i]
  ELSE [st EXCEPT !.stop = TRUE]

initial_continuing_end_index(anns, continuing, line) ==
  FoldUp(LAMBDA i, st : continuing_end_index_step(anns, continuing, line, i, st),
         [index |-> 0, stop |-> FALSE], 1, Len(continuing)).index

\* data.sort_by_key(|a| a.start_column_index()), stable
sort_by_start_column(data) == StableSortBy(start_column_index, data)

\* ================================================= calculate_single_line_data
\* the ContinuingMultiline data a row starts with
continuing_bars(continuing, se, continuing_end_index, additional) ==
  [k \in 1..continuing_end_index |->
     ContinuingMultiline(k - 1, continuing[k])]
  \o [k \in 1..Len(additional) |->
        ContinuingMultiline(continuing_end_index + (k - 1), se[additional[k]].ann)]

\* the starting / ending annotation that moves labels down on this row: the
\* last index the first loop assigns to move_down, 0 for None
move_down_index(se, offsets, connected, vertical_index) ==
  LET hits == {i \in 1..Len(se) :
                 /\ se[i].kind \in {"Start", "End"}
                 /\ offsets[i] = vertical_index
                 /\ ~connected[i]}
  IN IF hits = {} THEN 0 ELSE CHOOSE i \in hits : \A k \in hits : k <= i

\* one iteration of `for (j, offset) in vertical_offsets.iter_mut()
\* .enumerate().rev()`; st = [offsets, next]
move_down_step(se, i, to_offset, j, st) ==
  IF j = i \/ se[j].kind = "Start" THEN st
  ELSE IF /\ st.offsets[j] < to_offset
          /\ se[j].end_col <= StartColumnOf(se[i])
          /\ se[j].label
    THEN [offsets |-> [st.offsets EXCEPT ![j] = st.next], next |-> st.next + 1]
  ELSE st

\* vertical_offsets after the move_down block
apply_move_down(se, offsets, connected, vertical_index) ==
  LET i == move_down_index(se, offsets, connected, vertical_index)
  IN IF i = 0 THEN offsets
     ELSE FoldDown(LAMBDA j, st : move_down_step(se, i, vertical_index, j, st),
                   [offsets |-> offsets, next |-> vertical_index + 1],
                   Len(se), 1).offsets

\* the Start arm of the main fold
\* st = [data, continuing_end_index, additional, connected, ok]
start_arm(se, offsets, vertical_index, i, st) ==
  LET connects == offsets[i] = vertical_index /\ ~st.connected[i]
      st1 == IF connects
             THEN [st EXCEPT
                     !.data = Append(@, ConnectingMultiline(se[i].start_col,
                                 st.continuing_end_index + Len(st.additional),
                                 se[i].ann)),
                     !.additional = Append(@, i),
                     !.connected[i] = TRUE]
             ELSE st
  IN IF vertical_index = 0
       THEN [st1 EXCEPT !.data = Append(@, StartData(se[i].start_col, se[i].ann))]
     ELSE IF offsets[i] >= vertical_index
       THEN [st1 EXCEPT !.data = Append(@, Hanging(se[i].start_col, se[i].ann))]
     ELSE st1

\* end_arm without `*continuing_end_index -= 1`: the bar stays open
end_arm_keeping_bar(se, offsets, vertical_index, i, st) ==
  LET connects == offsets[i] = vertical_index /\ ~st.connected[i]
      bars == st.continuing_end_index + Len(st.additional)
      st1 == IF ~connects THEN st
             ELSE IF bars = 0 \/ st.continuing_end_index = 0
               THEN [st EXCEPT !.ok = FALSE, !.connected[i] = TRUE]
             ELSE [st EXCEPT
                     !.data = Append(@, ConnectingMultiline(se[i].end_col,
                                 bars - 1, se[i].ann)),
                     !.connected[i] = TRUE]
  IN IF vertical_index = 0
       THEN [st1 EXCEPT !.data = Append(@, EndData(se[i].end_col, se[i].ann))]
     ELSE IF offsets[i] # 0 /\ offsets[i] + 1 = vertical_index /\ se[i].label
       THEN [st1 EXCEPT !.data = Append(@, Label(se[i].end_col, se[i].ann))]
     ELSE IF offsets[i] >= vertical_index
       THEN [st1 EXCEPT !.data = Append(@, Hanging(se[i].end_col, se[i].ann))]
     ELSE st1

\* the End arm; ok = FALSE is the usize underflow of
\* (continuing_end_index + additional.len()) - 1 or continuing_end_index -= 1
end_arm(se, offsets, vertical_index, i, st) ==
  LET connects == offsets[i] = vertical_index /\ ~st.connected[i]
      bars == st.continuing_end_index + Len(st.additional)
      st1 == IF ~connects THEN st
             ELSE IF bars = 0 \/ st.continuing_end_index = 0
               THEN [st EXCEPT !.ok = FALSE, !.connected[i] = TRUE]
             ELSE [st EXCEPT
                     !.data = Append(@, ConnectingMultiline(se[i].end_col,
                                 bars - 1, se[i].ann)),
                     !.continuing_end_index = @ - 1,
                     !.connected[i] = TRUE]
  IN IF vertical_index = 0
       THEN [st1 EXCEPT !.data = Append(@, EndData(se[i].end_col, se[i].ann))]
     ELSE IF offsets[i] # 0 /\ offsets[i] + 1 = vertical_index /\ se[i].label
       THEN [st1 EXCEPT !.data = Append(@, Label(se[i].end_col, se[i].ann))]
     ELSE IF offsets[i] >= vertical_index
       THEN [st1 EXCEPT !.data = Append(@, Hanging(se[i].end_col, se[i].ann))]
     ELSE st1

\* both_arm that puts the End marker of the underline at the start column
both_arm_end_at_start(se, offsets, vertical_index, i, st) ==
  IF vertical_index = 0
    THEN [st EXCEPT !.data = @ \o
            <<StartData(se[i].start_col, se[i].ann),
              ConnectingSingleline(se[i].start_col, se[i].end_col, se[i].ann),
              EndData(se[i].start_col, se[i].ann)>>]
  ELSE IF offsets[i] # 0 /\ offsets[i] + 1 = vertical_index /\ se[i].label
    THEN [st EXCEPT !.data = Append(@, Label(se[i].start_col, se[i].ann))]
  ELSE IF offsets[i] >= vertical_index
    THEN [st EXCEPT !.data = Append(@, Hanging(se[i].start_col, se[i].ann))]
  ELSE st

\* the Both arm
both_arm(se, offsets, vertical_index, i, st) ==
  IF vertical_index = 0
    THEN [st EXCEPT !.data = @ \o
            <<StartData(se[i].start_col, se[i].ann),
              ConnectingSingleline(se[i].start_col, se[i].end_col, se[i].ann),
              EndData(se[i].end_col, se[i].ann)>>]
  ELSE IF offsets[i] # 0 /\ offsets[i] + 1 = vertical_index /\ se[i].label
    THEN [st EXCEPT !.data = Append(@, Label(se[i].start_col, se[i].ann))]
  ELSE IF offsets[i] >= vertical_index
    THEN [st EXCEPT !.data = Append(@, Hanging(se[i].start_col, se[i].ann))]
  ELSE st

start_end_arm(se, offsets, vertical_index, i, st) ==
  IF se[i].kind = "Start" THEN start_arm(se, offsets, vertical_index, i, st)
  ELSE IF se[i].kind = "End" THEN end_arm(se, offsets, vertical_index, i, st)
  ELSE both_arm(se, offsets, vertical_index, i, st)

\* the label of the last annotation, on the line of the underlines
trailing_label(se, offsets, vertical_index) ==
  LET last == se[Len(se)]
  IN IF /\ vertical_index = 0
        /\ offsets[Len(se)] = 0
        /\ last.kind \in {"End", "Both"}
        /\ last.label
     THEN <<Label(last.end_col + 2, last.ann)>>
     ELSE <<>>

\* calculate_single_line_data: the row of vertical_index and the new values
\* of the state it is handed by mutable reference
calculate_single_line_data(continuing, se, vertical_index, offsets, continuing_end_index, additional, connected) ==
  LET bars == continuing_bars(continuing, se, continuing_end_index, additional)
      moved == apply_move_down(se, offsets, connected, vertical_index)
      st == FoldUp(LAMBDA i, s : start_end_arm(se, moved, vertical_index, i, s),
                   [data |-> bars, continuing_end_index |-> continuing_end_index,
                    additional |-> additional, connected |-> connected,
                    ok |-> TRUE],
                   1, Len(se))
  IN [data |-> st.data \o trailing_label(se, moved, vertical_index),
      offsets |-> moved,
      continuing_end_index |-> st.continuing_end_index,
      additional |-> st.additional,
      connected |-> st.connected,
      ok |-> st.ok]

\* the stop test with Hanging data let through as well
only_continuing_or_hanging(data) ==
  \A k \in 1..Len(data) : data[k].type \in {"ContinuingMultiline", "Hanging"}

\* `!data.iter().any(|a| !matches!(a, ContinuingMultiline(_)))`
only_continuing(data) ==
  \A k \in 1..Len(data) : data[k].type = "ContinuingMultiline"


\* the row loop of calculate_final_data from row vertical_index on;
\* st = [rows, offsets, continuing_end_index, additional, connected, ok, finished]
RECURSIVE row_loop(_, _, _, _)
row_loop(continuing, se, vertical_index, st) ==
  LET r == calculate_single_line_data(continuing, se, vertical_index, st.offsets,
             st.continuing_end_index, st.additional, st.connected)
      next == [rows |-> Append(st.rows, r.data),
               offsets |-> r.offsets,
               continuing_end_index |-> r.continuing_end_index,
               additional |-> r.additional,
               connected |-> r.connected,
               ok |-> r.ok,
               finished |-> FALSE]
  IN IF vertical_index > MaxRows THEN st
     ELSE IF vertical_index > 0 /\ only_continuing(r.data)
       THEN [next EXCEPT !.rows = st.rows, !.finished = TRUE]
     ELSE IF ~r.ok THEN next
     ELSE row_loop(continuing, se, vertical_index + 1, next)

\* calculate_final_data: the rows of the line, each sorted by start column
calculate_final_data(anns, line_index_, continuing, se, offsets) ==
  LET st == row_loop(continuing, se, 0,
              [rows |-> <<>>, offsets |-> offsets,
               continuing_end_index |->
                 initial_continuing_end_index(anns, continuing, line_index_),
               additional |-> <<>>,
               connected |-> [i \in 1..Len(se) |-> FALSE],
               ok |-> TRUE, finished |-> FALSE])
  IN [st EXCEPT !.rows = [k \in 1..Len(st.rows) |-> sort_by_start_column(st.rows[k])]]

\* ======================================================= calculate, as built
\* sort_unstable_by on a slice of at most 20 elements is an insertion sort,
\* which leaves equal keys in their order: the starts_ends and the starts
\* the build produces
insertion_sorted_starts_ends(unsorted) == StableSortBy(StartColumnOf, unsorted)

insertion_sorted_starts(se) ==
  LET ends == SelectSeq([i \in 1..Len(se) |-> i], LAMBDA i : se[i].kind = "End")
  IN StableSortBy(LAMBDA i : se[i].range_start, ends)

\* what calculate leaves: the rows, or ok = FALSE when an assertion or an
\* arithmetic check of the layout fails
calculate_result(se, r, f) ==
  IF ~r.ok
  THEN [ok |-> FALSE, rows |-> <<>>, starts_ends |-> se,
        assigned |-> r.offsets, offsets |-> r.offsets]
  ELSE [ok |-> f.ok /\ f.finished, rows |-> f.rows, starts_ends |-> se,
        assigned |-> r.offsets, offsets |-> f.offsets]

\* calculate from the vertical offsets on
calculate_from_offsets(anns, line_index_, continuing, se, r) ==
  calculate_result(se, r,
    calculate_final_data(anns, line_index_, continuing, se, r.offsets))

\* calculate from the sorted starts_ends on
calculate_from_starts_ends(anns, line_index_, continuing, se) ==
  calculate_from_offsets(anns, line_index_, continuing, se,
    calculate_vertical_offsets(se, insertion_sorted_starts(se)))

\* calculate
calculate(anns, line_index_, on_line, continuing) ==
  calculate_from_starts_ends(anns, line_index_, continuing,
    insertion_sorted_starts_ends(build_starts_ends(anns, on_line, line_index_)))

\* ================================================================== the sink
\* What is written to `f`, line by line.  A written line is a record: what
\* it is, the line number or count it shows, the column it shows, the
\* number of continuing bars before the source, the width of the line-number
\* gutter, and its text (the characters after the gutter where the model
\* follows them, with the "\n" that ends it).
Written(kind, number, column, bars, digits, text) ==
  [kind |-> kind, number |-> number, column |-> column, bars |-> bars,
   digits |-> digits, text |-> text]

\* Option<usize>
None == 0 - 1

Repeat(ch, n) == [k \in 1..n |-> ch]

min(a, b) == IF a <= b THEN a ELSE b

\* --------------------------------------------------- FileDatabase, continued
\* Files::line_number: the 1-based number of a line
line_number(line_index_) == line_index_ + 1

\* Files::location: 1-based line and column of a byte offset
location(byte) ==
  [line_number |-> line_number(line_index(byte)),
   column_number |-> byte - line_range_start(line_index(byte)) + 1]

\* ================================================================== emitter
\* the label of an annotation as written; the model gives every non-empty
\* label the same text
LabelText == <<"l", "b", "l">>

label_of(a) == IF a.label THEN LabelText ELSE <<>>

\* to_horizontal_index without the columns of the nested blocks
to_horizontal_index_unnested(d, mnb) ==
  IF d.type = "ContinuingMultiline" THEN d.vertical_bar_index * 2 + 1
  ELSE IF d.type = "ConnectingMultiline" THEN d.vertical_bar_index * 2 + 2
  ELSE d.col + 1

\* to_horizontal_index of an element about to be pushed on data_stack
to_horizontal_index(d, mnb) ==
  IF d.type = "ContinuingMultiline" THEN d.vertical_bar_index * 2 + 1
  ELSE IF d.type = "ConnectingMultiline" THEN d.vertical_bar_index * 2 + 2
  ELSE d.col + 2 * mnb + 1

\* to_horizontal_index of an element of data_stack, where it ends
stack_horizontal_index(d, mnb) ==
  IF d.type = "ContinuingMultiline" THEN d.vertical_bar_index * 2 + 1
  ELSE IF d.type \in {"ConnectingMultiline", "ConnectingSingleline"}
    THEN d.end_col + 2 * mnb + 1
  ELSE d.col + 2 * mnb + 1

\* *horizontal_index moved to `start` with no space written
pad_to_unwritten(start, w) ==
  IF start > w.horizontal_index
  THEN [w EXCEPT !.horizontal_index = start]
  ELSE w

\* the spaces written up to `start`
pad_to(start, w) ==
  IF start > w.horizontal_index
  THEN [w EXCEPT !.text = @ \o Repeat(" ", start - w.horizontal_index),
                 !.horizontal_index = start]
  ELSE w

\* `^` for a Primary annotation, `-` for a Secondary one
underline_of(a) == IF a.style = "Primary" THEN "^" ELSE "-"

\* the ConnectingMultiline and ConnectingSingleline arms once padded;
\* ok = FALSE: to_index - *horizontal_index underflows
write_connecting(ch, to_index, padded) ==
  IF to_index < padded.horizontal_index
  THEN [padded EXCEPT !.ok = FALSE]
  ELSE [padded EXCEPT
          !.text = @ \o Repeat(ch, to_index - padded.horizontal_index),
          !.horizontal_index = to_index]

\* a marker or a label written where the writer stands; marks keeps, for
\* every element written this way, the number of characters of the row
\* written before it
write_at(d, chars, padded) ==
  [padded EXCEPT
     !.text = @ \o chars,
     !.horizontal_index = @ + Len(chars),
     !.last = @ \/ d.type = "Label",
     !.marks = Append(@, [type |-> d.type, ann |-> d.ann, col |-> d.col,
                          vertical_bar_index |-> d.vertical_bar_index,
                          at |-> Len(padded.text)])]

\* write_annotation_data; w = [horizontal_index, text, last, ok, marks],
\* `to` is to_horizontal_index or None
write_annotation_data(anns, mnb, d, to, w) ==
  IF d.type \in {"ConnectingMultiline", "ConnectingSingleline"}
  THEN IF stack_horizontal_index(d, mnb) < w.horizontal_index THEN w
       ELSE write_connecting(
              IF d.type = "ConnectingMultiline" THEN "_" ELSE underline_of(anns[d.ann]),
              IF to # None THEN min(to, stack_horizontal_index(d, mnb))
              ELSE stack_horizontal_index(d, mnb),
              pad_to(to_horizontal_index(d, mnb), w))
  ELSE IF to_horizontal_index(d, mnb) < w.horizontal_index THEN w
  ELSE write_at(d,
         IF d.type = "Label" THEN label_of(anns[d.ann])
         ELSE IF d.type \in {"Start", "End"} THEN <<underline_of(anns[d.ann])>>
         ELSE <<"|">>,
         pad_to(to_horizontal_index(d, mnb), w))

\* `for data in data_stack.iter().rev()`: write the stack, last pushed first
write_data_stack(anns, mnb, stack, to, w) ==
  FoldDown(LAMBDA j, w1 : write_annotation_data(anns, mnb, stack[j], to, w1),
           w, Len(stack), 1)

\* the stack written up to the new element: what is behind the writer is
\* removed from the stack, the new element pushed
push_after_write(mnb, d, st, w1) ==
  [st EXCEPT
     !.stack = Append(SelectSeq(@, LAMBDA x :
                        ~(stack_horizontal_index(x, mnb) < w1.horizontal_index)), d),
     !.w = w1,
     !.after_label = @ \/ st.w.last]

\* one iteration of `for data in line_data`; st = [stack, w, after_label]
emit_step(anns, mnb, row, k, st) ==
  IF st.w.horizontal_index < to_horizontal_index(row[k], mnb)
  THEN push_after_write(mnb, row[k], st,
         write_data_stack(anns, mnb, st.stack, to_horizontal_index(row[k], mnb), st.w))
  ELSE [st EXCEPT !.stack = Append(@, row[k]), !.after_label = @ \/ st.w.last]

\* the end of a row: what is left on the stack, and the newline
finish_row(st, w) ==
  [text |-> w.text \o <<"\n">>, ok |-> w.ok, after_label |-> st.after_label,
   marks |-> w.marks]

write_rest_of_row(anns, mnb, st) ==
  finish_row(st, write_data_stack(anns, mnb, st.stack, None, st.w))

\* one row of calculate's data written after the empty line-number gutter
emit_row(anns, mnb, row) ==
  write_rest_of_row(anns, mnb,
    FoldUp(LAMBDA k, st1 : emit_step(anns, mnb, row, k, st1),
           [stack |-> <<>>,
            w |-> [horizontal_index |-> 0, text |-> <<>>,
                   last |-> FALSE, ok |-> TRUE, marks |-> <<>>],
            after_label |-> FALSE],
           1, Len(row)))

\* ============================================================ block driver
\* last_printed_line_number.ilog10() + 1
decimal_digits(n) == IF n < 10 THEN 1 ELSE IF n < 100 THEN 2 ELSE 3

\* write_source_line(Some(line)) for one line of the file: the line number
\* right-aligned in the gutter, the continuing bars, the source text
source_line(digits, line_index_, continuing) ==
  Written("source", line_number(line_index_), 0, Len(continuing),
          max(digits, decimal_digits(line_number(line_index_))), <<"\n">>)

\* write_source_line(None, "...") and the newline after it
elision_line(digits, continuing) ==
  Written("elision", 0, 0, Len(continuing), digits, <<"\n">>)

\* the rows written, up to one that cannot be written
written_rows(digits, data, emitted, good) ==
  [lines |-> [k \in 1..good |-> Written("annotations", 0, 0, 0, digits, emitted[k].text)],
   ok |-> data.ok /\ good = Len(emitted),
   after_label |-> \E k \in 1..good : emitted[k].after_label,
   data |-> data]

emitted_rows(digits, data, emitted) ==
  written_rows(digits, data, emitted,
    Cardinality({k \in 1..Len(emitted) : \A j \in 1..k : emitted[j].ok}))

write_rows(anns, mnb, digits, data) ==
  emitted_rows(digits, data,
    [k \in 1..Len(data.rows) |-> emit_row(anns, mnb, data.rows[k])])

\* render_single_source_annotations: the rows of calculate, each written
\* after an empty gutter
render_single_source_annotations(anns, mnb, digits, line_index_, on_line, continuing) ==
  write_rows(anns, mnb, digits, calculate(anns, line_index_, on_line, continuing))

\* get_start_print_line, get_last_print_line
get_start_print_line(K, line_index_) == saturating_sub(line_index_, K)

get_last_print_line(K, line_index_) == min(line_index_ + K, last_line_index_in_file)

\* `for line in first..=last`: the source lines, none if last < first
print_lines(digits, continuing, first, last, ds) ==
  IF last >= first
  THEN [ds EXCEPT
          !.output = @ \o [k \in 1..(last - first + 1) |->
                             source_line(digits, first + k - 1, continuing)],
          !.already_printed_end_index = last + 1]
  ELSE ds

\* render_post_surrounding_lines without `.min(main_line - 1)`
render_post_surrounding_lines_unclipped(K, digits, main_line, last_line, continuing, ds) ==
  IF last_line + 1 >= ds.already_printed_end_index
  THEN print_lines(digits, continuing,
                   max(last_line + 1, ds.already_printed_end_index),
                   get_last_print_line(K, last_line), ds)
  ELSE ds

\* render_post_surrounding_lines; ds = [output, already_printed_end_index,
\* last_line_index, ok, data]
render_post_surrounding_lines(K, digits, main_line, last_line, continuing, ds) ==
  IF last_line + 1 >= ds.already_printed_end_index
  THEN print_lines(digits, continuing,
                   max(last_line + 1, ds.already_printed_end_index),
                   min(get_last_print_line(K, last_line), main_line - 1), ds)
  ELSE ds

\* render_part_lines from first_print_line_index on: the lines before the
\* annotated line, the line itself and its annotation rows
render_main_line(digits, main_line_index, continuing, first, rows, ds) ==
  IF first > main_line_index
  THEN [ds EXCEPT !.data = <<>>]
  ELSE [print_lines(digits, continuing, first, main_line_index, ds) EXCEPT
          !.output = @ \o rows.lines,
          !.ok = rows.ok,
          !.data = <<rows>>]

\* an elision row before every annotated line but the first
render_elision_always(digits, continuing, first, ds) ==
  IF ds.already_printed_end_index # 0
  THEN [ds EXCEPT !.output = Append(@, elision_line(digits, continuing))]
  ELSE ds

\* the elision row, if lines are left out before first_print_line_index
render_elision(digits, continuing, first, ds) ==
  IF ds.already_printed_end_index # 0 /\ first > ds.already_printed_end_index
  THEN [ds EXCEPT !.output = Append(@, elision_line(digits, continuing))]
  ELSE ds

render_from_first_line(anns, mnb, K, digits, main_line_index, on_line, continuing, first, ds) ==
  render_main_line(digits, main_line_index, continuing, first,
    render_single_source_annotations(anns, mnb, digits, main_line_index,
                                     on_line, continuing),
    render_elision(digits, continuing, first, ds))

render_after_post_lines(anns, mnb, K, digits, main_line_index, on_line, continuing, ds) ==
  render_from_first_line(anns, mnb, K, digits, main_line_index, on_line, continuing,
    max(get_start_print_line(K, main_line_index), ds.already_printed_end_index), ds)

\* render_part_lines: what is left of the lines after the last annotated
\* line, the elision, the lines before the annotated line, the line itself
\* and its annotation rows
render_part_lines(anns, mnb, K, digits, main_line_index, last_line, on_line, continuing, ds) ==
  render_after_post_lines(anns, mnb, K, digits, main_line_index, on_line, continuing,
    IF last_line # None
    THEN render_post_surrounding_lines(K, digits, main_line_index, last_line,
                                       continuing, ds)
    ELSE ds)

\* one iteration of the loop of render_lines_with_annotations, the
\* annotations of the line given
render_partitioned(anns, mnb, K, digits, line_index_, part, ds) ==
  IF part.on_line = <<>> THEN [ds EXCEPT !.data = <<>>]
  ELSE [render_part_lines(anns, mnb, K, digits, line_index_, ds.last_line_index,
                          part.on_line, part.continuing, ds)
          EXCEPT !.last_line_index = line_index_]

\* one iteration of the loop of render_lines_with_annotations
render_line(anns, mnb, K, digits, line_index_, ds) ==
  render_partitioned(anns, mnb, K, digits, line_index_,
                     partition_line(anns, line_index_), ds)

\* after the loop: the lines after the last annotated line
render_trailing_lines(K, digits, ds) ==
  IF ds.last_line_index # None /\ ds.last_line_index <= last_line_index_in_file
  THEN render_post_surrounding_lines(K, digits, last_line_index_in_file + 1,
                                     ds.last_line_index, <<>>, ds)
  ELSE ds

\* render_lines_with_annotations from line_index_ on
RECURSIVE render_lines_from(_, _, _, _, _, _)
render_lines_from(anns, mnb, K, digits, line_index_, ds) ==
  IF ~ds.ok THEN ds
  ELSE IF line_index_ > last_line_index_in_file
    THEN render_trailing_lines(K, digits, ds)
  ELSE render_lines_from(anns, mnb, K, digits, line_index_ + 1,
                         render_line(anns, mnb, K, digits, line_index_, ds))

\* =========================================================== diagnostic driver
\* render_diagnostic_header with the newline written only after a message
render_diagnostic_header_message_newline(diagnostic) ==
  Written("header", 0, 0, 0, 0,
          <<diagnostic.severity>>
          \o (IF diagnostic.name # <<>>
              THEN <<"[", diagnostic.name[1], "]">> ELSE <<>>)
          \o (IF diagnostic.message # ""
              THEN <<": ", diagnostic.message, "\n">> ELSE <<>>))

\* render_diagnostic_header: severity, [name], ": message", one newline
render_diagnostic_header(diagnostic) ==
  Written("header", 0, 0, 0, 0,
          <<diagnostic.severity>>
          \o (IF diagnostic.name # <<>>
              THEN <<"[", diagnostic.name[1], "]">> ELSE <<>>)
          \o (IF diagnostic.message # ""
              THEN <<": ", diagnostic.message, "\n">> ELSE <<>>)
          \o (IF diagnostic.message = "" THEN <<"\n">> ELSE <<>>))

\* render_diagnostic: self.line_digits, from the annotation that ends last
compute_line_digits(K, anns) ==
  LET ends == {anns[i].end : i \in 1..Len(anns)}
      last_annotated_line_byte_offset == CHOOSE e \in ends : \A x \in ends : x <= e
      last_printed_line_index == line_index(last_annotated_line_byte_offset) + K
  IN decimal_digits(line_number(last_printed_line_index))

\* the location line for the start byte of an annotation
location_of(digits, a) ==
  Written("location", location(a.start).line_number,
          location(a.start).column_number, 0, digits,
          <<"-->", " ", "path", ":", "\n">>)

\* render_diagnostic_file: the location line, from the first Primary
\* annotation of the vector as it is handed over
location_line(digits, anns) ==
  LET primary == SelectSeq(anns, LAMBDA a : a.style = "Primary")
  IN IF primary # <<>>
     THEN location_of(digits, primary[1])
     ELSE Written("location", 0, 0, 0, digits, <<"-->", " ", "path", "\n">>)

\* the state of the line loop when render_lines_with_annotations enters it
lines_start(written) ==
  [output |-> written, already_printed_end_index |-> 0,
   last_line_index |-> None, ok |-> TRUE, data |-> <<>>]

\* render_diagnostic_file after the sort
render_sorted_file(K, digits, sorted, written) ==
  render_lines_from(sorted, compute_max_nested_blocks(sorted), K, digits, 0,
                    lines_start(written))

\* render_diagnostic_file
render_diagnostic_file(K, digits, anns, written) ==
  render_sorted_file(K, digits, sort_by_range_start(anns),
                     Append(written, location_line(digits, anns)))

\* `... and N more`
suppressed_line(diagnostic) ==
  IF diagnostic.suppressed_count > 0
  THEN <<Written("more", diagnostic.suppressed_count, 0, 0, 0, <<"\n">>)>>
  ELSE <<>>

\* render_diagnostic after its file
finish_diagnostic(diagnostic, file) ==
  IF ~file.ok THEN [output |-> file.output, ok |-> FALSE]
  ELSE [output |-> file.output \o suppressed_line(diagnostic), ok |-> TRUE]

\* render_diagnostic: header, the file, the suppressed count
render_diagnostic(K, diagnostic) ==
  IF diagnostic.annotations = <<>>
  THEN [output |-> <<render_diagnostic_header(diagnostic)>>
                     \o suppressed_line(diagnostic),
        ok |-> TRUE]
  ELSE finish_diagnostic(diagnostic,
         render_diagnostic_file(K, compute_line_digits(K, diagnostic.annotations),
                                diagnostic.annotations,
                                <<render_diagnostic_header(diagnostic)>>))

\* writeln!(self.f) after every diagnostic, the last one too
separator_after_every(i, n) == <<Written("blank", 0, 0, 0, 0, <<"\n">>)>>

\* writeln!(self.f) after diagnostic i of n but the last (i counts from 1)
separator(i, n) ==
  IF i < n THEN <<Written("blank", 0, 0, 0, 0, <<"\n">>)>> ELSE <<>>

\* ===================================================================== state
VARIABLES
  pc,                             \* where the renderer is
  diagnostic_annotations,         \* diagnostic.annotations, as added
  annotations,                    \* the file's annotations, sorted by start
  max_nested_blocks,              \* self.max_nested_blocks
  current_line_index,             \* render_lines_with_annotations
  line,                           \* line_index of the last calculate call
  continuing_annotations,         \* its continuing_annotations (indices)
  starts_ends,                    \* its sorted start / end data
  assigned_offsets,               \* what calculate_vertical_offsets returned
  vertical_offsets,               \* the vector after calculate_final_data
  final_data,                     \* the rows calculate returned
  surrounding_lines,              \* config.surrounding_lines
  diagnostics,                    \* the vector handed to render
  diagnostic_index,               \* render_impl: the diagnostic being rendered
  output,                         \* the lines written to self.f so far
  line_digits,                    \* self.line_digits
  already_printed_end_index,      \* render_lines_with_annotations
  last_line_index,                \* the last annotated line rendered, or None
  file_id,                        \* render_diagnostic: the file being rendered
  fail_at                         \* the sink: which line written fails, or None

vars ==
  <<line_lens, pc, diagnostic_annotations, annotations, max_nested_blocks,
    current_line_index, line, continuing_annotations, starts_ends,
    assigned_offsets, vertical_offsets, final_data,
    surrounding_lines, diagnostics, diagnostic_index, output, line_digits,
    already_printed_end_index, last_line_index, file_id, fail_at>>

layout_vars ==
  <<line, continuing_annotations, starts_ends, assigned_offsets,
    vertical_offsets, final_data>>

\* what render and the block driver keep besides
render_vars ==
  <<surrounding_lines, diagnostics, diagnostic_index, output, line_digits,
    already_printed_end_index, last_line_index, file_id, fail_at>>

\* Diagnostic::with_annotation in the order of the start bytes: the first
\* thing render_diagnostic_file does is the stable sort by start byte, so
\* these are the vectors the rest of the renderer sees
InStartOrder(anns) ==
  \A i \in 1..Len(anns) : i < Len(anns) => anns[i].start <= anns[i + 1].start

\* a diagnostic with its annotations in one file, handed to render
Init ==
  /\ line_lens \in Files
  /\ pc = "file"
  /\ diagnostic_annotations \in
       {v \in AnnotationVecs(line_lens) : InStartOrder(v)}
  /\ annotations = <<>>
  /\ max_nested_blocks = 0
  /\ current_line_index = 0
  /\ line = 0
  /\ continuing_annotations = <<>>
  /\ starts_ends = <<>>
  /\ assigned_offsets = <<>>
  /\ vertical_offsets = <<>>
  /\ final_data = <<>>
  /\ surrounding_lines = 0
  /\ diagnostics = <<>>
  /\ diagnostic_index = 0
  /\ output = <<>>
  /\ line_digits = 0
  /\ already_printed_end_index = 0
  /\ last_line_index = None
  /\ file_id = 0
  /\ fail_at = None

\* render_diagnostic_file: sort, max_nested_blocks, enter the line loop
RenderDiagnosticFile ==
  /\ pc = "file"
  /\ diagnostic_annotations # <<>>
  /\ annotations' = sort_by_range_start(diagnostic_annotations)
  /\ max_nested_blocks' = compute_max_nested_blocks(annotations')
  /\ current_line_index' = 0
  /\ pc' = "lines"
  /\ UNCHANGED <<line_lens, diagnostic_annotations, layout_vars, render_vars>>

\* render_diagnostic of a diagnostic without annotations: no file is rendered
RenderNoAnnotations ==
  /\ pc = "file"
  /\ diagnostic_annotations = <<>>
  /\ pc' = "done"
  /\ UNCHANGED <<line_lens, diagnostic_annotations, annotations, max_nested_blocks,
                 current_line_index, layout_vars, render_vars>>

\* an iteration of the line loop for a line no annotation starts or ends on
SkipLine ==
  /\ pc = "lines"
  /\ current_line_index <= last_line_index_in_file
  /\ partition_line(annotations, current_line_index).on_line = <<>>
  /\ current_line_index' = current_line_index + 1
  /\ UNCHANGED <<line_lens, pc, diagnostic_annotations, annotations, max_nested_blocks,
                 layout_vars, render_vars>>

\* an iteration for an annotated line: calculate builds and sorts starts_ends,
\* calculates the vertical offsets and the rows.  A failed assertion of
\* calculate_vertical_offsets ends the run in "offsets_panic", an arithmetic
\* underflow or a row loop that does not end in "rows_panic".
Calculate ==
  /\ pc = "lines"
  /\ current_line_index <= last_line_index_in_file
  /\ \E part \in {partition_line(annotations, current_line_index)} :
       /\ part.on_line # <<>>
       /\ \E se \in sorted_starts_ends(
                      build_starts_ends(annotations, part.on_line, current_line_index)) :
          \E starts \in sorted_starts(se) :
          \E r \in {calculate_vertical_offsets(se, starts)} :
          \E f \in {calculate_final_data(annotations, current_line_index,
                                         part.continuing, se, r.offsets)} :
            /\ line' = current_line_index
            /\ continuing_annotations' = part.continuing
            /\ starts_ends' = se
            /\ assigned_offsets' = r.offsets
            /\ vertical_offsets' = IF r.ok THEN f.offsets ELSE r.offsets
            /\ final_data' = IF r.ok THEN f.rows ELSE <<>>
            /\ pc' = IF ~r.ok THEN "offsets_panic"
                     ELSE IF ~(f.ok /\ f.finished) THEN "rows_panic"
                     ELSE "lines"
            /\ current_line_index' =
                 IF r.ok /\ f.ok /\ f.finished
                 THEN current_line_index + 1 ELSE current_line_index
  /\ UNCHANGED <<line_lens, diagnostic_annotations, annotations, max_nested_blocks,
                 render_vars>>

\* the line loop ends after the last line of the file
FinishFile ==
  /\ pc = "lines"
  /\ current_line_index > last_line_index_in_file
  /\ pc' = "done"
  /\ UNCHANGED <<line_lens, diagnostic_annotations, annotations, max_nested_blocks,
                 current_line_index, layout_vars, render_vars>>

Next ==
  \/ RenderDiagnosticFile
  \/ RenderNoAnnotations
  \/ SkipLine
  \/ Calculate
  \/ FinishFile

Spec == Init /\ [][Next]_vars

\* ================================================================== render
\* Vec<Annotation> as handed to render: ranges that may be empty, a label or
\* none, Primary or Secondary
Styles == {"Primary", "Secondary"}

StyledAnnotations(lens) ==
  {[start |-> s, end |-> e, label |-> l, style |-> y] :
     s \in 0..(source_len(lens) - 1), e \in 0..(source_len(lens) - 1),
     l \in BOOLEAN, y \in Styles}

StyledRanges(lens) == {a \in StyledAnnotations(lens) : a.start <= a.end}

TallFile == [k \in 1..TallLines |-> TallLineLen]

\* annotations of the tall file: from the start of a line to the last byte
\* but one of the same or a later line
WholeLineRanges ==
  {a \in StyledRanges(TallFile) :
     /\ a.start % TallLineLen = 0
     /\ a.end % TallLineLen = TallLineLen - 1
     /\ ~a.label
     /\ a.style = "Primary"}

RenderFiles == {NarrowFile, WideFile, TallFile}

\* Diagnostic
Diagnostic(severity, name, message, anns, notes, suppressed_count) ==
  [severity |-> severity, name |-> name, message |-> message,
   annotations |-> anns, notes |-> notes, suppressed_count |-> suppressed_count]

Severities == {"error", "note"}
Names == {<<>>, <<"test/diagnostic_1">>}
Messages == {"", "Test message"}
NoteVecs == {<<>>, <<[severity |-> "help", message |-> "Test note"]>>}

\* a diagnostic with these annotations and nothing else set
Plain(anns) == Diagnostic("error", <<>>, "Test message", anns, <<>>, 0)

\* the annotation vectors rendered in each file
RenderedVecs(lens) ==
  IF lens = TallFile
    THEN UNION {[1..n -> WholeLineRanges] : n \in 1..MaxTallAnnotations}
  ELSE IF lens = WideFile
    THEN [1..1 -> StyledRanges(WideFile)]
  ELSE UNION {[1..n -> StyledRanges(NarrowFile)] : n \in 1..MaxRendered}

\* the annotation vectors of the diagnostics whose header, notes and
\* suppressed count vary: none, a labelled single-line one, a multi-line one
HeaderVecs ==
  {<<>>,
   <<[start |-> HeadLen, end |-> HeadLen + 1, label |-> TRUE, style |-> "Primary"]>>,
   <<[start |-> 0, end |-> HeadLen + 1, label |-> FALSE, style |-> "Secondary"]>>}

HeaderDiagnostics ==
  {Diagnostic(s, n, m, a, t, c) :
     s \in Severities, n \in Names, m \in Messages, a \in HeaderVecs,
     t \in NoteVecs, c \in 0..MaxSuppressed}

\* Vec<Diagnostic> handed to render for a file
DiagnosticVecs(lens) ==
  {<<Plain(v)>> : v \in RenderedVecs(lens)}
  \cup (IF lens = NarrowFile
        THEN UNION {[1..n -> HeaderDiagnostics] : n \in 0..MaxDiagnostics}
        ELSE {})

\* the surrounding_lines values rendered with in each file
SurroundingLines(lens) ==
  IF lens = TallFile THEN 0..MaxSurrounding ELSE {0, 1}

\* a renderer on a file, with its configuration, and the diagnostics handed
\* to render
InitRender ==
  /\ line_lens \in RenderFiles
  /\ surrounding_lines \in SurroundingLines(line_lens)
  /\ diagnostics \in DiagnosticVecs(line_lens)
  /\ pc = "render"
  /\ diagnostic_index = 0
  /\ output = <<>>
  /\ line_digits = 0
  /\ max_nested_blocks = 0
  /\ already_printed_end_index = 0
  /\ last_line_index = None
  /\ file_id = 0
  /\ fail_at = None
  /\ diagnostic_annotations = <<>>
  /\ annotations = <<>>
  /\ current_line_index = 0
  /\ line = 0
  /\ continuing_annotations = <<>>
  /\ starts_ends = <<>>
  /\ assigned_offsets = <<>>
  /\ vertical_offsets = <<>>
  /\ final_data = <<>>

\* the files, the sink, the configuration and the diagnostics handed over;
\* file_id is 0 where the single file of the renderer is meant
input_vars == <<line_lens, surrounding_lines, diagnostics, file_id, fail_at>>

\* The sink and the FileDatabase may fail: fail_at is the number, among the
\* lines render writes, of the first one for which a write to self.f or a
\* lookup returns Err; None if none does.  Every write and lookup is
\* followed by `?`.
\* all of these lines were written
write_succeeds(written) == fail_at = None \/ Len(written) < fail_at

\* what has reached the sink when the renderer went on to write these lines
delivered(written) ==
  IF write_succeeds(written) THEN written ELSE SubSeq(written, 1, fail_at - 1)

\* `?` without the early return: the renderer goes on after an Err
after_write_ignored(written, next_pc) == next_pc

\* `?`: where the renderer is after it went on to write these lines
after_write(written, next_pc) ==
  IF write_succeeds(written) THEN next_pc ELSE "error"

file_vars ==
  <<diagnostic_annotations, annotations, max_nested_blocks, current_line_index,
    already_printed_end_index, last_line_index>>

\* render of an empty vector: nothing is written
RenderNothing ==
  /\ pc = "render"
  /\ diagnostics = <<>>
  /\ pc' = "returned"
  /\ UNCHANGED <<input_vars, diagnostic_index, output, line_digits, file_vars,
                 layout_vars>>

\* render, render_impl: the loop over the diagnostics is entered
RenderImpl ==
  /\ pc = "render"
  /\ diagnostics # <<>>
  /\ diagnostic_index' = 1
  /\ pc' = "diagnostic"
  /\ UNCHANGED <<input_vars, output, line_digits, file_vars, layout_vars>>

\* render_diagnostic of a diagnostic without annotations: the header
RenderHeaderOnly ==
  /\ pc = "diagnostic"
  /\ diagnostics[diagnostic_index].annotations = <<>>
  /\ \E written \in {Append(output,
                         render_diagnostic_header(diagnostics[diagnostic_index]))} :
       /\ output' = delivered(written)
       /\ pc' = after_write(written, "suppressed")
  /\ UNCHANGED <<input_vars, diagnostic_index, line_digits, file_vars, layout_vars>>

\* render_diagnostic up to the line loop of its file: the header,
\* line_digits, and in render_diagnostic_file the location line, the sort
\* and max_nested_blocks
RenderFileStart ==
  /\ pc = "diagnostic"
  /\ \E d \in {diagnostics[diagnostic_index]} :
       /\ d.annotations # <<>>
       /\ line_digits' =
            IF write_succeeds(Append(output, render_diagnostic_header(d)))
            THEN compute_line_digits(surrounding_lines, d.annotations)
            ELSE line_digits
       /\ \E written \in {output \o <<render_diagnostic_header(d),
                                        location_line(line_digits', d.annotations)>>} :
            /\ output' = delivered(written)
            /\ pc' = after_write(written, "lines")
            /\ annotations' = IF write_succeeds(written)
                              THEN sort_by_range_start(d.annotations)
                              ELSE annotations
            /\ max_nested_blocks' =
                 IF write_succeeds(written)
                 THEN compute_max_nested_blocks(annotations')
                 ELSE max_nested_blocks
       /\ diagnostic_annotations' = d.annotations
  /\ current_line_index' = 0
  /\ already_printed_end_index' = 0
  /\ last_line_index' = None
  /\ UNCHANGED <<input_vars, diagnostic_index, layout_vars>>

\* an iteration of the line loop: nothing for a line no annotation starts or
\* ends on; else render_part_lines, with the rows of calculate written under
\* the line.  A panic of the layout or of the emitter leaves the renderer in
\* "panic".
RenderLine ==
  /\ pc = "lines"
  /\ current_line_index <= last_line_index_in_file
  /\ \E ds \in {render_line(annotations, max_nested_blocks, surrounding_lines,
                            line_digits, current_line_index,
                            [output |-> output,
                             already_printed_end_index |-> already_printed_end_index,
                             last_line_index |-> last_line_index,
                             ok |-> TRUE, data |-> <<>>])} :
       /\ output' = delivered(ds.output)
       /\ already_printed_end_index' = ds.already_printed_end_index
       /\ last_line_index' = ds.last_line_index
       /\ pc' = after_write(ds.output, IF ds.ok THEN "lines" ELSE "panic")
       /\ current_line_index' = IF ds.ok THEN current_line_index + 1
                                ELSE current_line_index
       /\ IF ds.data = <<>>
          THEN UNCHANGED layout_vars
          ELSE /\ line' = current_line_index
               /\ continuing_annotations' =
                    partition_line(annotations, current_line_index).continuing
               /\ starts_ends' = ds.data[1].data.starts_ends
               /\ assigned_offsets' = ds.data[1].data.assigned
               /\ vertical_offsets' = ds.data[1].data.offsets
               /\ final_data' = ds.data[1].data.rows
  /\ UNCHANGED <<input_vars, diagnostic_index, line_digits, diagnostic_annotations,
                 annotations, max_nested_blocks>>

\* after the last line of the file: the lines after the last annotated line
RenderTrailingLines ==
  /\ pc = "lines"
  /\ current_line_index > last_line_index_in_file
  /\ \E ds \in {render_trailing_lines(surrounding_lines, line_digits,
                            [output |-> output,
                             already_printed_end_index |-> already_printed_end_index,
                             last_line_index |-> last_line_index,
                             ok |-> TRUE, data |-> <<>>])} :
       /\ output' = delivered(ds.output)
       /\ already_printed_end_index' = ds.already_printed_end_index
       /\ pc' = after_write(ds.output, "suppressed")
  /\ UNCHANGED <<input_vars, diagnostic_index, line_digits, diagnostic_annotations,
                 annotations, max_nested_blocks, current_line_index, last_line_index,
                 layout_vars>>

\* the end of render_diagnostic and of the iteration of render_impl: the
\* suppressed count, the scratch state reset, the blank line before the next
\* diagnostic
FinishDiagnostic ==
  /\ pc = "suppressed"
  /\ \E suppressed \in {output \o suppressed_line(diagnostics[diagnostic_index])} :
     \E written \in {suppressed \o separator(diagnostic_index, Len(diagnostics))} :
       /\ output' = delivered(written)
       /\ max_nested_blocks' = IF write_succeeds(suppressed) THEN 0
                               ELSE max_nested_blocks
       /\ line_digits' = IF write_succeeds(suppressed) THEN 0 ELSE line_digits
       /\ IF diagnostic_index < Len(diagnostics) /\ write_succeeds(written)
          THEN diagnostic_index' = diagnostic_index + 1
          ELSE diagnostic_index' = diagnostic_index
       /\ pc' = after_write(written,
                            IF diagnostic_index < Len(diagnostics)
                            THEN "diagnostic" ELSE "returned")
  /\ UNCHANGED <<input_vars, diagnostic_annotations, annotations, current_line_index,
                 already_printed_end_index, last_line_index, layout_vars>>

NextRender ==
  \/ RenderNothing
  \/ RenderImpl
  \/ RenderHeaderOnly
  \/ RenderFileStart
  \/ RenderLine
  \/ RenderTrailingLines
  \/ FinishDiagnostic

SpecRender == InitRender /\ [][NextRender]_vars

\* ------------------------------------------------------- render, failing sink
\* the diagnostics rendered to a sink that may fail: an error with or
\* without annotations and suppressed count
FailingDiagnostics ==
  {Diagnostic("error", <<>>, "Test message", a, <<>>, c) :
     a \in HeaderVecs, c \in 0..MaxSuppressed}

\* a renderer on the narrow file whose sink or FileDatabase fails at one of
\* the first MaxFailAt lines, or never
InitFailing ==
  /\ line_lens = NarrowFile
  /\ surrounding_lines \in {0, 1}
  /\ diagnostics \in UNION {[1..n -> FailingDiagnostics] : n \in 0..MaxDiagnostics}
  /\ fail_at \in {None} \cup 1..MaxFailAt
  /\ pc = "render"
  /\ diagnostic_index = 0
  /\ output = <<>>
  /\ line_digits = 0
  /\ max_nested_blocks = 0
  /\ already_printed_end_index = 0
  /\ last_line_index = None
  /\ file_id = 0
  /\ diagnostic_annotations = <<>>
  /\ annotations = <<>>
  /\ current_line_index = 0
  /\ line = 0
  /\ continuing_annotations = <<>>
  /\ starts_ends = <<>>
  /\ assigned_offsets = <<>>
  /\ vertical_offsets = <<>>
  /\ final_data = <<>>

SpecFailing == InitFailing /\ [][NextRender]_vars

\* ===================================================== render, several files
\* A FileDatabase of two files: FileId 1 has two lines, the first a long one,
\* FileId 2 has ManyLines lines of one byte each.
LongLineLen == 12
ManyLines == 10
FileDatabase == <<<<LongLineLen, 2>>, [k \in 1..ManyLines |-> 1]>>
FileIds == 1..Len(FileDatabase)

\* Files::line_index(file, byte_index)
line_index_in(file, byte) ==
  Cardinality({l \in 1..Len(FileDatabase[file]) :
                 SeqSum(SubSeq(FileDatabase[file], 1, l)) <= byte})

\* annotations of a file of the database: Primary, without label, between
\* the first and last bytes of its lines
AnnotationsOfFile(file) ==
  {[file_id |-> file, start |-> s, end |-> e, label |-> FALSE, style |-> "Primary"] :
     s \in 0..(source_len(FileDatabase[file]) - 1),
     e \in 0..(source_len(FileDatabase[file]) - 1)}

RangesOfFile(file) ==
  {a \in AnnotationsOfFile(file) :
     /\ a.start <= a.end
     /\ file = 1 => a.start \in {0, LongLineLen} /\ a.end \in {LongLineLen - 1, LongLineLen}
     /\ file = 2 => a.end - a.start <= 1}

\* a diagnostic with one or two annotations, in any of the files
DiagnosticsOverFiles ==
  {<<Plain(v)>> :
     v \in UNION {[1..n -> UNION {RangesOfFile(f) : f \in FileIds}] : n \in 1..2}}

\* `.max_by(|(_, a), (_, b)| a.cmp(b))` over (file_id, range.end): the last
\* of the annotations with the greatest range.end, whatever their files
max_by_range_end(anns) ==
  anns[CHOOSE i \in 1..Len(anns) :
         /\ \A j \in 1..Len(anns) : anns[j].end <= anns[i].end
         /\ \A j \in (i + 1)..Len(anns) : anns[j].end < anns[i].end]

\* render_diagnostic: line_digits
line_digits_over_files(K, anns) ==
  LET a == max_by_range_end(anns)
      last_annotated_line_index == line_index_in(a.file_id, a.end)
      last_printed_line_index == last_annotated_line_index + K
  IN decimal_digits(line_number(last_printed_line_index))

\* the BTreeMap entry of a file: its annotations in the order they were added
annotations_in_file(anns, file) == SelectSeq(anns, LAMBDA a : a.file_id = file)

\* the keys of the BTreeMap after this one
files_after(anns, file) ==
  {f \in FileIds : f > file /\ annotations_in_file(anns, f) # <<>>}

InitFiles ==
  /\ line_lens = FileDatabase[1]
  /\ surrounding_lines \in {0, 1}
  /\ diagnostics \in DiagnosticsOverFiles
  /\ pc = "render"
  /\ diagnostic_index = 0
  /\ output = <<>>
  /\ line_digits = 0
  /\ max_nested_blocks = 0
  /\ already_printed_end_index = 0
  /\ last_line_index = None
  /\ file_id = 0
  /\ fail_at = None
  /\ diagnostic_annotations = <<>>
  /\ annotations = <<>>
  /\ current_line_index = 0
  /\ line = 0
  /\ continuing_annotations = <<>>
  /\ starts_ends = <<>>
  /\ assigned_offsets = <<>>
  /\ vertical_offsets = <<>>
  /\ final_data = <<>>

\* render_diagnostic up to the loop over the files: the header, line_digits
\* and the BTreeMap
RenderDiagnosticStart ==
  /\ pc = "diagnostic"
  /\ \E d \in {diagnostics[diagnostic_index]} :
       /\ d.annotations # <<>>
       /\ line_digits' = line_digits_over_files(surrounding_lines, d.annotations)
       /\ output' = delivered(Append(output, render_diagnostic_header(d)))
       /\ pc' = after_write(Append(output, render_diagnostic_header(d)), "files")
       /\ diagnostic_annotations' = d.annotations
  /\ file_id' = 0
  /\ UNCHANGED <<line_lens, surrounding_lines, diagnostics, fail_at, diagnostic_index,
                 annotations, max_nested_blocks, current_line_index,
                 already_printed_end_index, last_line_index, layout_vars>>

\* the next iteration of `for (file, annotations) in annotations.into_iter()`:
\* render_diagnostic_file up to the line loop
RenderNextFile ==
  /\ pc = "files"
  /\ files_after(diagnostic_annotations, file_id) # {}
  /\ UNCHANGED <<surrounding_lines, diagnostics, fail_at, diagnostic_index,
                 line_digits, diagnostic_annotations, layout_vars>>
  /\ \E f \in {CHOOSE f \in files_after(diagnostic_annotations, file_id) :
                  \A g \in files_after(diagnostic_annotations, file_id) : f <= g} :
       /\ file_id' = f
       /\ line_lens' = FileDatabase[f]
       /\ annotations' =
            sort_by_range_start(annotations_in_file(diagnostic_annotations, f))
       /\ \E written \in {Append(output,
              location_line(line_digits,
                            annotations_in_file(diagnostic_annotations, f))')} :
            /\ output' = delivered(written)
            /\ pc' = after_write(written, "lines")
       /\ max_nested_blocks' = compute_max_nested_blocks(annotations)'
  /\ current_line_index' = 0
  /\ already_printed_end_index' = 0
  /\ last_line_index' = None

\* the end of render_lines_with_annotations for a file: the lines after its
\* last annotated line
RenderFileTrailingLines ==
  /\ pc = "lines"
  /\ current_line_index > last_line_index_in_file
  /\ \E ds \in {render_trailing_lines(surrounding_lines, line_digits,
                            [output |-> output,
                             already_printed_end_index |-> already_printed_end_index,
                             last_line_index |-> last_line_index,
                             ok |-> TRUE, data |-> <<>>])} :
       /\ output' = delivered(ds.output)
       /\ already_printed_end_index' = ds.already_printed_end_index
       /\ pc' = after_write(ds.output, "files")
  /\ UNCHANGED <<input_vars, diagnostic_index, line_digits, diagnostic_annotations,
                 annotations, max_nested_blocks, current_line_index, last_line_index,
                 layout_vars>>

\* the loop over the files ends
RenderFilesDone ==
  /\ pc = "files"
  /\ files_after(diagnostic_annotations, file_id) = {}
  /\ pc' = "suppressed"
  /\ UNCHANGED <<input_vars, diagnostic_index, output, line_digits, file_vars,
                 layout_vars>>

NextFiles ==
  \/ RenderImpl
  \/ RenderDiagnosticStart
  \/ RenderNextFile
  \/ RenderLine
  \/ RenderFileTrailingLines
  \/ RenderFilesDone
  \/ FinishDiagnostic

SpecFiles == InitFiles /\ [][NextFiles]_vars


\* ==================================================================== claims
\* calculate has returned the rows of `line`
LaidOut == pc \in {"lines", "done"} /\ final_data # <<>>

\* the order an insertion sort (what sort_unstable_by runs on a short slice)
\* leaves equal keys in: starts_ends with equal columns in the order of the
\* annotations, ending annotations with equal start bytes likewise, so that
\* the later one in starts_ends is given the lower offset
TiesInInputOrder ==
  \A i, j \in 1..Len(starts_ends) :
    i < j =>
      /\ StartColumnOf(starts_ends[i]) = StartColumnOf(starts_ends[j])
           => starts_ends[i].ann < starts_ends[j].ann
      /\ ( /\ starts_ends[i].kind = "End" /\ starts_ends[j].kind = "End"
           /\ starts_ends[i].range_start = starts_ends[j].range_start
           /\ Len(assigned_offsets) = Len(starts_ends) )
           => assigned_offsets[j] < assigned_offsets[i]

\* the rows of the layout and the elements of a row, by their position
Rows == 1..Len(final_data)
Elements(r) == 1..Len(final_data[r])

\* the element of starts_ends made for annotation a
IncidenceOf(a) == CHOOSE i \in 1..Len(starts_ends) : starts_ends[i].ann = a

\* the rows on which an element of this type was emitted for annotation a
RowsOf(type, a) ==
  {r \in Rows : \E k \in Elements(r) :
     final_data[r][k].type = type /\ final_data[r][k].ann = a}

\* the columns of the line an incidence covers: a Start runs to the end of
\* the line, an End comes from its start
FirstColumn(se) == IF se.kind = "End" THEN 0 ELSE se.start_col
LastColumn(se) == IF se.kind = "Start" THEN line_lens[line + 1] ELSE se.end_col

\* the vertical_bar_index values of the ContinuingMultiline data of row r
BarsOn(r) ==
  {final_data[r][k].vertical_bar_index :
     k \in {m \in Elements(r) : final_data[r][m].type = "ContinuingMultiline"}}

\* those of the ConnectingMultiline data row r has for incidences of a kind
ConnectedOn(r, kind) ==
  {final_data[r][k].vertical_bar_index :
     k \in {m \in Elements(r) :
              /\ final_data[r][m].type = "ConnectingMultiline"
              /\ starts_ends[IncidenceOf(final_data[r][m].ann)].kind = kind}}

\* how many elements of this type row r has for annotation a
CountOf(r, type, a) ==
  Cardinality({k \in Elements(r) :
                 final_data[r][k].type = type /\ final_data[r][k].ann = a})

\* C1: whatever Start, End and Both data lie on a line, with or without
\* labels, calculate_vertical_offsets returns: no Start is reached with
\* next_start_vertical_offset >= end_offset_for_start.
C1_StartAssertionHolds == TiesInInputOrder => pc # "offsets_panic"

\* C2: in every row calculate returns, a Label occurs at most once, and
\* then as the last element of the row.
C2_LabelOnceAndLast ==
  LaidOut /\ TiesInInputOrder =>
    \A r \in Rows : \A k \in Elements(r) :
      final_data[r][k].type = "Label" => k = Len(final_data[r])

\* C3: in no row does a Label sit at a column lower than the end column of a
\* ConnectingMultiline of the same row.
C3_NoLabelLeftOfConnector ==
  LaidOut /\ TiesInInputOrder =>
    \A r \in Rows : \A k, m \in Elements(r) :
      /\ final_data[r][k].type = "Label"
      /\ final_data[r][m].type = "ConnectingMultiline"
      => final_data[r][k].col >= final_data[r][m].end_col

\* C4, as the code has it: of two multi-line annotations ending on a line,
\* the one that starts at the earlier byte (so also the one that starts on
\* the earlier line) is given the greater offset by
\* calculate_vertical_offsets, and its ConnectingMultiline is on a lower row.
C4_EarlierStartConnectsLower ==
  LaidOut =>
    \A i, j \in 1..Len(starts_ends) :
      /\ starts_ends[i].kind = "End"
      /\ starts_ends[j].kind = "End"
      /\ starts_ends[i].range_start < starts_ends[j].range_start
      => /\ assigned_offsets[i] > assigned_offsets[j]
         /\ RowsOf("ConnectingMultiline", starts_ends[i].ann)
              = {assigned_offsets[i] + 1}
         /\ RowsOf("ConnectingMultiline", starts_ends[j].ann)
              = {assigned_offsets[j] + 1}

\* two annotations that started at different bytes end on the laid-out line
\* at different columns, and move_down has changed an offset
C4_TwoEndingsLaidOut ==
  /\ LaidOut
  /\ vertical_offsets # assigned_offsets
  /\ \E i, j \in 1..Len(starts_ends) :
       /\ starts_ends[i].kind = "End"
       /\ starts_ends[j].kind = "End"
       /\ starts_ends[i].range_start < starts_ends[j].range_start
       /\ starts_ends[i].end_col # starts_ends[j].end_col

\* C4, as stated: of two multi-line annotations ending on a line, the one
\* that started on the earlier line has the greater vertical offset on that
\* line (the offsets as move_down leaves them).
C4_EarlierStartGreaterOffset ==
  LaidOut /\ TiesInInputOrder =>
    \A i, j \in 1..Len(starts_ends) :
      /\ starts_ends[i].kind = "End"
      /\ starts_ends[j].kind = "End"
      /\ line_index(starts_ends[i].range_start)
           < line_index(starts_ends[j].range_start)
      => vertical_offsets[i] > vertical_offsets[j]

\* C5: two annotations on a line that both have a label and whose columns
\* overlap have their labels on different rows, and no row has a Hanging of
\* each at the same column.
C5_OverlappingLabelsApart ==
  LaidOut /\ TiesInInputOrder =>
    \A i, j \in 1..Len(starts_ends) :
      /\ i # j
      /\ starts_ends[i].label /\ starts_ends[j].label
      /\ FirstColumn(starts_ends[i]) <= LastColumn(starts_ends[j])
      /\ FirstColumn(starts_ends[j]) <= LastColumn(starts_ends[i])
      => /\ RowsOf("Label", starts_ends[i].ann)
              \cap RowsOf("Label", starts_ends[j].ann) = {}
         /\ \A r \in Rows : \A k, m \in Elements(r) :
              /\ final_data[r][k].type = "Hanging"
              /\ final_data[r][k].ann = starts_ends[i].ann
              /\ final_data[r][m].type = "Hanging"
              /\ final_data[r][m].ann = starts_ends[j].ann
              => final_data[r][k].col # final_data[r][m].col

\* C6: the ConnectingMultiline of an ending annotation has the
\* vertical_bar_index of that annotation's own bar, its position in
\* continuing_annotations.
C6_EndConnectsItsOwnBar ==
  LaidOut /\ TiesInInputOrder =>
    \A r \in Rows : \A k \in Elements(r) :
      /\ final_data[r][k].type = "ConnectingMultiline"
      /\ starts_ends[IncidenceOf(final_data[r][k].ann)].kind = "End"
      => \E c \in 1..Len(continuing_annotations) :
           /\ continuing_annotations[c] = final_data[r][k].ann
           /\ final_data[r][k].vertical_bar_index = c - 1

\* C7: every ContinuingMultiline and ConnectingMultiline of a file has a
\* vertical_bar_index below the file's max_nested_blocks.
C7_BarsInsideGutter ==
  LaidOut /\ TiesInInputOrder =>
    \A r \in Rows : \A k \in Elements(r) :
      final_data[r][k].type \in {"ContinuingMultiline", "ConnectingMultiline"}
      => final_data[r][k].vertical_bar_index < max_nested_blocks

\* C8: from a row to the next, the set of vertical_bar_index values of the
\* ContinuingMultiline data loses those an End connected to on the row and
\* gains those a Start connected to on the row.
C8_BarsFollowConnections ==
  LaidOut =>
    \A r \in Rows :
      r < Len(final_data)
      => BarsOn(r + 1)
           = (BarsOn(r) \ ConnectedOn(r, "End")) \cup ConnectedOn(r, "Start")

\* a layout in which a Start opens a bar and an End closes one, each on a
\* row that has a next row
C8_BarOpenedAndClosed ==
  /\ LaidOut
  /\ \E r1, r2 \in Rows :
       /\ r1 < Len(final_data) /\ ConnectedOn(r1, "Start") # {}
       /\ r2 < Len(final_data) /\ ConnectedOn(r2, "End") # {}

\* C9: row 0 has, for every annotation on the line, its markers once each
\* and at its columns: Start for a Start, End for an End, and Start,
\* ConnectingSingleline, End for a Both; and every annotation on the line has
\* one vertical offset.
C9_MarkersOnRowZero ==
  LaidOut =>
    /\ Len(vertical_offsets) = Len(starts_ends)
    /\ \A i \in 1..Len(starts_ends) :
         LET se == starts_ends[i]
             markers(type) ==
               {final_data[1][k] :
                  k \in {m \in Elements(1) :
                           /\ final_data[1][m].type = type
                           /\ final_data[1][m].ann = se.ann}}
         IN /\ vertical_offsets[i] >= 0
            /\ CountOf(1, "Start", se.ann) = IF se.kind = "End" THEN 0 ELSE 1
            /\ CountOf(1, "End", se.ann) = IF se.kind = "Start" THEN 0 ELSE 1
            /\ CountOf(1, "ConnectingSingleline", se.ann)
                 = IF se.kind = "Both" THEN 1 ELSE 0
            /\ \A d \in markers("Start") : d.col = se.start_col
            /\ \A d \in markers("End") : d.col = se.end_col
            /\ \A d \in markers("ConnectingSingleline") :
                 d.col = se.start_col /\ d.end_col = se.end_col

\* a line with a starting, an ending and a single-line annotation, the
\* last one over more than one column
C9_AllKindsOnLine ==
  /\ LaidOut
  /\ \E i, j, k \in 1..Len(starts_ends) :
       /\ starts_ends[i].kind = "Start"
       /\ starts_ends[j].kind = "End"
       /\ starts_ends[k].kind = "Both"
       /\ starts_ends[k].start_col < starts_ends[k].end_col

Partitioned == starts_ends # <<>>

\* the annotations of the file (indices) that satisfy a condition on their
\* start and end line
AnnotationsWhere(Cond(_, _)) ==
  {a \in 1..Len(annotations) :
     Cond(line_index(annotations[a].start), line_index(annotations[a].end))}

SeqRange(s) == {s[k] : k \in 1..Len(s)}

\* C13, as the code has it: the annotations handed to calculate for line L
\* are those that start or end on L; the continuing set handed along is
\* those that start before L and end on L or later, in the order of the
\* sorted annotations.
C13_PartitionOfLine ==
  Partitioned =>
    /\ {starts_ends[k].ann : k \in 1..Len(starts_ends)}
         = AnnotationsWhere(LAMBDA s, e : s = line \/ e = line)
    /\ SeqRange(continuing_annotations)
         = AnnotationsWhere(LAMBDA s, e : s < line /\ line <= e)
    /\ \A k \in 1..Len(continuing_annotations) :
         k < Len(continuing_annotations)
         => continuing_annotations[k] < continuing_annotations[k + 1]

\* a line is handed over on which one annotation ends while another goes on
C13_EndingAndStraddling ==
  /\ Partitioned
  /\ \E a, b \in SeqRange(continuing_annotations) :
       /\ line_index(annotations[a].end) = line
       /\ line_index(annotations[b].end) > line

\* C13, as stated: the continuing set is the annotations with
\* start line < L < end line.
C13_ContinuingStrictlyStraddles ==
  Partitioned =>
    SeqRange(continuing_annotations)
      = AnnotationsWhere(LAMBDA s, e : s < line /\ line < e)

\* ---------------------------------------------------------------------- C11
\* C11: every annotation that starts and ends on the laid-out line (Both)
\* has start column <= end column, and its end column is the offset of the
\* end of its byte range within the line, minus one
C11_BothColumns ==
  \A k \in 1..Len(starts_ends) :
    starts_ends[k].kind = "Both" =>
      /\ starts_ends[k].start_col <= starts_ends[k].end_col
      /\ starts_ends[k].end_col
           = annotations[starts_ends[k].ann].end - line_range_start(line) - 1

\* ---------------------------------------------------------------------- C12
\* the line loop has just rendered an annotated line: the layout and the
\* last lines of the output are those of line current_line_index - 1
RenderedLine ==
  /\ pc = "lines"
  /\ current_line_index > 0
  /\ partition_line(annotations, current_line_index - 1).on_line # <<>>

\* the annotations of the line just rendered
OnRenderedLine == partition_line(annotations, current_line_index - 1)

\* the only annotation of the line just rendered, which no annotation
\* continues over, is a single-line annotation over a non-empty range
LoneSingleline ==
  /\ RenderedLine
  /\ Len(OnRenderedLine.on_line) = 1
  /\ OnRenderedLine.continuing = <<>>
  /\ \E a \in {annotations[OnRenderedLine.on_line[1]]} :
       /\ line_index(a.start) = line_index(a.end)
       /\ a.start < a.end

\* the underline row of an annotation over columns [s, e) of its line
UnderlineRow(a, s, e) ==
  Written("annotations", 0, 0, 0, line_digits,
          Repeat(" ", s + 2 * max_nested_blocks + 1)
          \o Repeat(IF a.style = "Primary" THEN "^" ELSE "-", e - s)
          \o (IF a.label THEN <<" ">> \o LabelText ELSE <<>>)
          \o <<"\n">>)

\* C12: a lone single-line annotation over the non-empty range [s, e) of a
\* line is written, under the source line, as one row of exactly e - s
\* underline characters (`^` if Primary, `-` if Secondary) at positions
\* s + 2 * max_nested_blocks + 1 .. e + 2 * max_nested_blocks, followed, when
\* it is labelled, by one space and the label
C12_LoneUnderline ==
  LoneSingleline =>
    \E a \in {annotations[OnRenderedLine.on_line[1]]} :
      /\ output[Len(output)]
           = UnderlineRow(a, a.start - line_range_start(line),
                          a.end - line_range_start(line))
      /\ output[Len(output) - 1].kind = "source"

\* a labelled Secondary annotation alone on its line, right of the column of
\* a block that another line opens
C12_LoneLabelledNested ==
  /\ LoneSingleline
  /\ max_nested_blocks = 1
  /\ annotations[OnRenderedLine.on_line[1]].label
  /\ annotations[OnRenderedLine.on_line[1]].style = "Secondary"

\* ---------------------------------------------------------------------- C14
\* the line loop goes from one annotated line of the file to the next
NextAnnotatedLine ==
  /\ pc = "lines"
  /\ last_line_index # None
  /\ last_line_index' # last_line_index

\* the elision rows the step writes
ElisionsWritten ==
  {k \in (Len(output) + 1)..Len(output') : output'[k].kind = "elision"}

\* the annotations that continue over the line the step renders
ContinuingOver(l) ==
  {i \in 1..Len(annotations) :
     line_index(annotations[i].start) < l /\ l <= line_index(annotations[i].end)}

\* C14: with surrounding_lines = K, exactly one elision row, carrying only
\* the continuing bars, is written between two consecutive annotated lines
\* p < c when c - p > 2 * K + 1 (a line between them is printed with
\* neither), and none when c - p <= 2 * K + 1
C14_ElisionWhereLinesAreLeftOut ==
  [][NextAnnotatedLine =>
       /\ Cardinality(ElisionsWritten)
            = (IF last_line_index' - last_line_index > 2 * surrounding_lines + 1
               THEN 1 ELSE 0)
       /\ \A k \in ElisionsWritten :
            /\ output'[k].bars = Cardinality(ContinuingOver(last_line_index'))
            /\ output'[k].text = <<"\n">>
            /\ k < Len(output')
            /\ output'[k + 1].kind = "source"]_vars

\* C14 as claimed: the elision row is written when c - p > K + 1, and not
\* when c - p <= K + 1
C14_ElisionMoreThanKPlusOneApart ==
  [][NextAnnotatedLine =>
       Cardinality(ElisionsWritten)
         = (IF last_line_index' - last_line_index > surrounding_lines + 1
            THEN 1 ELSE 0)]_vars

\* the annotated line before the one just rendered
PreviousAnnotatedLine ==
  CHOOSE p \in 0..(current_line_index - 2) :
    /\ partition_line(annotations, p).on_line # <<>>
    /\ \A l \in (p + 1)..(current_line_index - 2) :
         partition_line(annotations, l).on_line = <<>>

\* an annotated line rendered after an elision row, with surrounding lines
\* printed after the annotated line before it and before the line itself
C14_ElidedWithSurroundingLines ==
  /\ RenderedLine
  /\ surrounding_lines = 1
  /\ \E p \in 0..(current_line_index - 2) :
       partition_line(annotations, p).on_line # <<>>
  /\ current_line_index - 1 - PreviousAnnotatedLine = 2 * surrounding_lines + 2
  /\ \E k \in 1..Len(output) : output[k].kind = "elision"

\* ---------------------------------------------------------------------- C15
\* the lines of the file an annotation starts or ends on
AnnotatedLines ==
  {l \in 0..last_line_index_in_file : partition_line(annotations, l).on_line # <<>>}

\* the lines within distance K of an annotated line
SurroundedLines ==
  {l \in 0..last_line_index_in_file :
     \E a \in AnnotatedLines :
       l + surrounding_lines >= a /\ l <= a + surrounding_lines}

\* render_diagnostic_file has returned for the diagnostic
RenderedFile ==
  pc = "suppressed" /\ diagnostics[diagnostic_index].annotations # <<>>

\* the line numbers of the source lines written for the file, in the order
\* written: those after the last location line
PrintedLineNumbers ==
  LET start == CHOOSE k \in 1..Len(output) :
                 /\ output[k].kind = "location"
                 /\ \A j \in (k + 1)..Len(output) : output[j].kind # "location"
      printed == SelectSeq(SubSeq(output, start + 1, Len(output)),
                           LAMBDA w : w.kind = "source")
  IN [k \in 1..Len(printed) |-> printed[k].number]

\* C15: the source lines printed for a file are exactly the lines within
\* distance K of an annotated line, each once and in ascending order;
\* already_printed_end_line_index never decreases while the file is rendered
\* and never exceeds the next annotated line
C15_PrintedLines ==
  /\ [](RenderedFile =>
          /\ \A k \in 1..(Len(PrintedLineNumbers) - 1) :
               PrintedLineNumbers[k] < PrintedLineNumbers[k + 1]
          /\ {PrintedLineNumbers[k] : k \in 1..Len(PrintedLineNumbers)}
               = {line_number(l) : l \in SurroundedLines})
  /\ [](pc = "lines" =>
          \A a \in AnnotatedLines :
            a >= current_line_index => already_printed_end_index <= a)
  /\ [][pc = "lines" => already_printed_end_index' >= already_printed_end_index]_vars

\* a file rendered whose annotated lines are closer than the surrounding
\* lines reach, and whose last annotated line has fewer than K lines after it
C15_OverlappingSurroundings ==
  /\ RenderedFile
  /\ surrounding_lines = 2
  /\ \E p, c \in AnnotatedLines : c = p + 2
  /\ last_line_index_in_file - 1 \in AnnotatedLines
  /\ 0 \notin SurroundedLines

\* ---------------------------------------------------------------------- C16
\* render has returned
Returned == pc = "returned"

\* C16: for every note of a diagnostic, render writes a note entry that
\* begins with the note's severity, so a diagnostic with n notes has n note
\* entries in the output
C16_NotesWritten ==
  Returned =>
    \A i \in 1..Len(diagnostics) :
      \A n \in 1..Len(diagnostics[i].notes) :
        \E k \in 1..Len(output) :
          /\ output[k].kind = "note"
          /\ output[k].text[1] = diagnostics[i].notes[n].severity

\* ---------------------------------------------------------------------- C17
\* the location line of the file is the last line written
LocationWritten ==
  pc = "lines" /\ output # <<>> /\ output[Len(output)].kind = "location"

\* the Primary annotations of the file, as added to the diagnostic
PrimaryAnnotations ==
  {diagnostic_annotations[i] : i \in
     {j \in 1..Len(diagnostic_annotations) :
        diagnostic_annotations[j].style = "Primary"}}

\* C17: the location line shows the 1-based line and column of the Primary
\* annotation with the smallest start byte, whatever the order in which the
\* annotations were added; without a Primary annotation it shows the path only
C17_LocationOfEarliestPrimary ==
  LocationWritten =>
    IF PrimaryAnnotations = {}
    THEN output[Len(output)].text = <<"-->", " ", "path", "\n">>
    ELSE \E a \in PrimaryAnnotations :
           /\ \A b \in PrimaryAnnotations : a.start <= b.start
           /\ output[Len(output)] = location_of(line_digits, a)

\* ---------------------------------------------------------------------- C18
\* the orders a vector of n annotations can be added in
InsertionOrders(n) ==
  {p \in [1..n -> 1..n] : \A i, j \in 1..n : i # j => p[i] # p[j]}

\* C18: the output of render for a diagnostic is the same for every
\* permutation of its annotations vector
C18_OrderOfAnnotationsIrrelevant ==
  (Returned /\ Len(diagnostics) = 1) =>
    \A p \in InsertionOrders(Len(diagnostics[1].annotations)) :
      render_diagnostic(surrounding_lines,
                        [diagnostics[1] EXCEPT !.annotations = Permute(@, p)]).output
        = output

\* ---------------------------------------------------------------------- C19
\* the header line of a diagnostic: the severity word, `[name]` if a name
\* is set, `: message` if the message is not empty, and one newline
HeaderLine(d) ==
  Written("header", 0, 0, 0, 0,
          <<d.severity>>
          \o (IF d.name = <<>> THEN <<>> ELSE <<"[", d.name[1], "]">>)
          \o (IF d.message = "" THEN <<>> ELSE <<": ", d.message>>)
          \o <<"\n">>)

\* the header of a diagnostic without annotations has been written
HeaderOnlyWritten ==
  pc = "suppressed" /\ diagnostics[diagnostic_index].annotations = <<>>

RECURSIVE JoinedByBlankLine(_)
JoinedByBlankLine(i) ==
  IF i > Len(diagnostics) THEN <<>>
  ELSE render_diagnostic(surrounding_lines, diagnostics[i]).output
         \o (IF i < Len(diagnostics)
             THEN <<Written("blank", 0, 0, 0, 0, <<"\n">>)>> ELSE <<>>)
         \o JoinedByBlankLine(i + 1)

\* C20: render writes the renderings of the single diagnostics in input
\* order, separated by exactly one blank line, none after the last; nothing
\* of one diagnostic changes the rendering of the next; for an empty list
\* it writes nothing
C20_JoinedRenderings ==
  Returned =>
    /\ output = JoinedByBlankLine(1)
    /\ max_nested_blocks = 0
    /\ line_digits = 0
    /\ diagnostics = <<>> => output = <<>>

\* render has returned from two diagnostics, the first with a multi-line
\* annotation, the second with a single-line one
C20_TwoAnnotatedDiagnostics ==
  /\ Returned
  /\ Len(diagnostics) = 2
  /\ diagnostics[1].annotations # <<>>
  /\ compute_max_nested_blocks(diagnostics[1].annotations) = 1
  /\ diagnostics[2].annotations # <<>>
  /\ compute_max_nested_blocks(diagnostics[2].annotations) = 0
  /\ Len(output) > 8

\* ---------------------------------------------------------------------- C22
\* the multi-line annotations of the file open on line l: start line <= l <
\* end line
OpenBlocks(l) ==
  {i \in 1..Len(annotations) :
     /\ line_index(annotations[i].start) # line_index(annotations[i].end)
     /\ line_index(annotations[i].start) <= l
     /\ l < line_index(annotations[i].end)}

\* C22: max_nested_blocks of a file is the maximum, over the lines of the
\* file, of the number of multi-line annotations with start line <= L < end
\* line; single-line annotations do not count
C22_MaxNestedBlocks ==
  pc = "lines" =>
    /\ \A l \in 0..last_line_index_in_file :
         Cardinality(OpenBlocks(l)) <= max_nested_blocks
    /\ \E l \in 0..last_line_index_in_file :
         Cardinality(OpenBlocks(l)) = max_nested_blocks

\* a file in which a block ends on the line the next one starts on, beside a
\* single-line annotation
C22_BlocksInSequence ==
  /\ pc = "lines"
  /\ max_nested_blocks = 1
  /\ \E i, j, k \in 1..Len(annotations) :
       /\ line_index(annotations[i].end) = line_index(annotations[j].start)
       /\ line_index(annotations[i].start) < line_index(annotations[i].end)
       /\ line_index(annotations[j].start) < line_index(annotations[j].end)
       /\ line_index(annotations[k].start) = line_index(annotations[k].end)

\* ---------------------------------------------------------------------- C23
\* the elements written as markers or labels in the rows of the line just
\* rendered, each with the number of characters of its row written before it
MarksWritten ==
  UNION {{emit_row(annotations, max_nested_blocks, final_data[r]).marks[k] :
            k \in 1..Len(emit_row(annotations, max_nested_blocks, final_data[r]).marks)} :
         r \in 1..Len(final_data)}

\* C23: every Start, End, Hanging and Label the emitter writes is written at
\* position column_index + 2 * max_nested_blocks + 1 of its row, and every
\* ContinuingMultiline with index k at position 2 * k + 1, so that the
\* column of a written Start or End is its position minus
\* 2 * max_nested_blocks minus 1
C23_MarkPositions ==
  RenderedLine =>
    \A m \in MarksWritten :
      IF m.type = "ContinuingMultiline"
      THEN m.at = 2 * m.vertical_bar_index + 1
      ELSE /\ m.at = m.col + 2 * max_nested_blocks + 1
           /\ m.col = m.at - 2 * max_nested_blocks - 1

\* a line rendered right of the column of a block, with a bar, a Start or
\* End that is not in column 0, a Hanging and a Label written
C23_AllKindsWritten ==
  /\ RenderedLine
  /\ max_nested_blocks > 0
  /\ \E m \in MarksWritten : m.type = "ContinuingMultiline"
  /\ \E m \in MarksWritten : m.type \in {"Start", "End"} /\ m.col > 0
  /\ \E m \in MarksWritten : m.type = "Hanging"
  /\ \E m \in MarksWritten : m.type = "Label"

\* ----------------------------------------------------------------- C24
\* the second line of the scenario has been laid out
C24_ScenarioLaidOut ==
  /\ LaidOut
  /\ line_lens = ScenarioFile
  /\ annotations = ScenarioAnnotations
  /\ line = 1

\* C24, as the code has it: on the second line of the scenario, row 0 is the
\* two ContinuingMultiline bars and the two Ends (columns 3 and 12); row 1
\* the bars, the ConnectingMultiline closing the Secondary and two Hangings;
\* row 2 the outer bar, the ConnectingMultiline closing the Primary, the
\* Hanging of the Primary and the Label of the Secondary at column 12; row 3
\* the Label of the Primary at column 3.  There is no fifth row.
C24_ScenarioRows ==
  C24_ScenarioLaidOut =>
    final_data =
      << <<ContinuingMultiline(0, 1), ContinuingMultiline(1, 2),
           EndData(3, 1), EndData(12, 2)>>,
         <<ContinuingMultiline(0, 1), ContinuingMultiline(1, 2),
           ConnectingMultiline(12, 1, 2), Hanging(3, 1), Hanging(12, 2)>>,
         <<ContinuingMultiline(0, 1), ConnectingMultiline(3, 0, 1),
           Hanging(3, 1), Label(12, 2)>>,
         <<Label(3, 1)>> >>

\* C24, as stated: five rows, the Label of the Primary on row 3 and the
\* Label of the Secondary on row 4
C24_ScenarioFiveRows ==
  C24_ScenarioLaidOut =>
    /\ Len(final_data) = 5
    /\ \E k \in 1..Len(final_data[4]) :
         final_data[4][k].type = "Label" /\ final_data[4][k].ann = 1
    /\ \E k \in 1..Len(final_data[5]) :
         final_data[5][k].type = "Label" /\ final_data[5][k].ann = 2

\* ----------------------------------------------------------------- C25
\* calculate_vertical_offsets has returned or panicked for a line
OffsetsAssigned ==
  starts_ends # <<>> /\ Len(assigned_offsets) = Len(starts_ends)

LabelledBoth(i) == starts_ends[i].kind = "Both" /\ starts_ends[i].label
UnlabelledBoth(i) == starts_ends[i].kind = "Both" /\ ~starts_ends[i].label

\* C25: of two labelled Both data the one with the lower start column is
\* assigned the greater offset; a Both without a label keeps offset 0, also
\* after move_down, and takes no offset from the others: each labelled Both
\* is assigned one more than the next labelled Both to its right.  If the
\* rightmost of the line is a Both without a label, no offset 0 is assigned:
\* the first labelled Both from the right has 1, and every End, and every
\* Start the Start pass reaches, has at least 1.
C25_BothRightToLeft ==
  OffsetsAssigned =>
    LET n == Len(starts_ends)
    IN /\ \A i, j \in 1..n :
            ( /\ LabelledBoth(i) /\ LabelledBoth(j)
              /\ starts_ends[i].start_col < starts_ends[j].start_col )
            => assigned_offsets[i] > assigned_offsets[j]
       /\ \A i \in 1..n :
            UnlabelledBoth(i)
            => assigned_offsets[i] = 0 /\ vertical_offsets[i] = 0
       /\ \A i, j \in 1..n :
            ( /\ i < j /\ LabelledBoth(i) /\ LabelledBoth(j)
              /\ \A k \in (i + 1)..(j - 1) : ~LabelledBoth(k) )
            => assigned_offsets[i] = assigned_offsets[j] + 1
       /\ UnlabelledBoth(n) =>
            /\ \A i \in 1..n :
                 ( /\ LabelledBoth(i)
                   /\ \A k \in (i + 1)..n : ~LabelledBoth(k) )
                 => assigned_offsets[i] = 1
            /\ \A i \in 1..n :
                 ( \/ starts_ends[i].kind = "End"
                   \/ starts_ends[i].kind = "Start" /\ pc # "offsets_panic" )
                 => assigned_offsets[i] >= 1

\* two labelled Both data with a Both without a label between them
C25_UnlabelledBetweenLabelled ==
  /\ OffsetsAssigned
  /\ Len(starts_ends) = 3
  /\ LabelledBoth(1) /\ UnlabelledBoth(2) /\ LabelledBoth(3)
  /\ starts_ends[1].start_col < starts_ends[3].start_col
  /\ pc = "lines"

\* ----------------------------------------------------------------- C26
\* the rightmost datum of the line is a labelled Both
RightmostLabelledBoth == OffsetsAssigned /\ LabelledBoth(Len(starts_ends))

\* `end >= start.location.column_index` for another datum of the line
OtherEndsAfterStart ==
  \E j \in 1..(Len(starts_ends) - 1) :
    EndColumnOf(starts_ends[j]) >= starts_ends[Len(starts_ends)].start_col

\* the rows that hold a Label of annotation a at this column
LabelRows(a, column) ==
  {r \in Rows : \E k \in Elements(r) :
     /\ final_data[r][k].type = "Label"
     /\ final_data[r][k].ann = a
     /\ final_data[r][k].col = column}

\* C26: a labelled Both that is the rightmost datum of a line is assigned
\* offset 0 and has its Label on row 0 at its end column + 2 exactly when no
\* other datum of the line ends at or after its start column; otherwise its
\* offset is at least 1 and its Label is on a lower row at its start column.
C26_RightmostBoth ==
  RightmostLabelledBoth =>
    LET n == Len(starts_ends)
        b == starts_ends[n]
    IN IF ~OtherEndsAfterStart
       THEN /\ assigned_offsets[n] = 0
            /\ LaidOut
            /\ 1 \in LabelRows(b.ann, b.end_col + 2)
       ELSE /\ assigned_offsets[n] >= 1
            /\ LaidOut
            /\ \E r \in LabelRows(b.ann, b.start_col) : r > 1

\* ----------------------------------------------------------------- C27
\* how many Label data the rows of the line hold for annotation a
LabelsOf(a) == SeqSum([r \in Rows |-> CountOf(r, "Label", a)])

\* C27: every labelled annotation that ends on the line (End or Both) has
\* exactly one Label in the rows of the line (with the ties of the sorts
\* left in input order, as the build leaves them).
C27_OneLabelEach ==
  (LaidOut /\ pc = "lines" /\ TiesInInputOrder) =>
    \A i \in 1..Len(starts_ends) :
      (starts_ends[i].kind \in {"End", "Both"} /\ starts_ends[i].label)
      => LabelsOf(starts_ends[i].ann) = 1

\* ----------------------------------------------------------------- C29
\* the state of the row loop of calculate_final_data where it stopped
StoppedRowLoop ==
  calculate_final_data(annotations, line, continuing_annotations,
                       starts_ends, assigned_offsets)

\* the RowsBeyond rows the loop would go on to produce after the row it
\* stopped at, from row vertical_index on, hold only ContinuingMultiline data
RECURSIVE only_continuing_from(_, _, _, _, _)
only_continuing_from(continuing, se, vertical_index, last_index, st) ==
  LET r == calculate_single_line_data(continuing, se, vertical_index, st.offsets,
             st.continuing_end_index, st.additional, st.connected)
  IN IF vertical_index > last_index THEN TRUE
     ELSE /\ r.ok
          /\ only_continuing(r.data)
          /\ only_continuing_from(continuing, se, vertical_index + 1, last_index,
               [st EXCEPT !.offsets = r.offsets,
                          !.continuing_end_index = r.continuing_end_index,
                          !.additional = r.additional,
                          !.connected = r.connected])

\* C29: on every line calculate_vertical_offsets returns for, the row loop
\* stops at a row of only ContinuingMultiline data, without a bar index
\* underflowing and within MaxRows rows, and each of the RowsBeyond rows it would make
\* after the row it stops at is such a row as well.
C29_RowLoopEnds ==
  (OffsetsAssigned /\ pc # "offsets_panic") =>
    LET f == StoppedRowLoop
    IN /\ f.ok /\ f.finished
       /\ Len(f.rows) <= MaxRows
       /\ f.rows = final_data
       /\ only_continuing_from(continuing_annotations, starts_ends,
                               Len(f.rows) + 1, Len(f.rows) + RowsBeyond, f)

\* a line on which move_down has raised an offset between two rows
C29_MovedDownAndStopped ==
  /\ LaidOut
  /\ pc = "lines"
  /\ \E i \in 1..Len(starts_ends) : vertical_offsets[i] > assigned_offsets[i]

\* ----------------------------------------------------------------- C28
\* what render_lines_with_annotations hands to calculate for the line it is
\* about to render
HandedToCalculate == partition_line(annotations, current_line_index)

AboutToRenderLine ==
  pc = "lines" /\ current_line_index <= last_line_index_in_file

\* the row loop for the line about to be rendered, when
\* calculate_vertical_offsets returns for it
RowsUnderflow(part) ==
  LET se == insertion_sorted_starts_ends(
              build_starts_ends(annotations, part.on_line, current_line_index))
      r == calculate_vertical_offsets(se, insertion_sorted_starts(se))
  IN r.ok /\ ~calculate_final_data(annotations, current_line_index,
                                   part.continuing, se, r.offsets).ok

\* C28: for every line render_lines_with_annotations comes to, each
\* annotation of the on-line set starts or ends on the line, each one that
\* ends on it without starting on it is in the continuing set, and, when the
\* on-line set is not empty, no End is connected with continuing_end_index
\* (or the number of open bars) at 0.
C28_PreconditionsOfCalculate ==
  AboutToRenderLine =>
    LET part == HandedToCalculate
        l == current_line_index
    IN /\ \A k \in 1..Len(part.on_line) :
            LET a == annotations[part.on_line[k]]
            IN /\ line_index(a.start) = l \/ line_index(a.end) = l
               /\ (line_index(a.end) = l /\ line_index(a.start) # l)
                  => \E c \in 1..Len(part.continuing) :
                       part.continuing[c] = part.on_line[k]
       /\ part.on_line # <<>> => ~RowsUnderflow(part)

\* a line with an End and a second continuing annotation is about to be
\* rendered
C28_EndAmongContinuing ==
  /\ AboutToRenderLine
  /\ Len(HandedToCalculate.continuing) >= 2
  /\ \E k \in 1..Len(HandedToCalculate.on_line) :
       LET a == annotations[HandedToCalculate.on_line[k]]
       IN line_index(a.end) = current_line_index
          /\ line_index(a.start) < current_line_index

\* ----------------------------------------------------------------- C30
\* the source lines written for the diagnostic being rendered
SourceLinesWritten ==
  {k \in 1..Len(output) : output[k].kind = "source"}

\* C30: while a diagnostic is rendered, line_digits is at least the number
\* of decimal digits of every line number written for it, so that every
\* line number is written in a gutter of line_digits columns.
C30_GutterWidth ==
  pc \in {"files", "lines", "suppressed"} =>
    \A k \in SourceLinesWritten :
      /\ decimal_digits(output[k].number) <= line_digits
      /\ output[k].digits = line_digits

\* ----------------------------------------------------------------- C21
\* render has returned the error of the failed write or lookup
ReturnedError == pc = "error"

\* C21: when a write or a lookup fails, render returns the error with
\* exactly the lines before the failing one written, in every later state
\* nothing more is written (the renderer takes no step after the error),
\* and render returns Ok only if none of the lines of the diagnostics failed.
C21_FailFast ==
  /\ [](ReturnedError =>
          /\ fail_at # None
          /\ output = SubSeq(JoinedByBlankLine(1), 1, fail_at - 1))
  /\ [](Returned => write_succeeds(JoinedByBlankLine(1)))
  /\ [][~ReturnedError]_vars

\* the error was returned between a source line and its annotation rows,
\* with a diagnostic still to come
C21_FailedBeforeRows ==
  /\ ReturnedError
  /\ diagnostic_index < Len(diagnostics)
  /\ output # <<>>
  /\ output[Len(output)].kind = "source"
  /\ Len(JoinedByBlankLine(1)) > fail_at + 3

====
